---- MODULE Spec2Model ----
(***************************************************************************)
(* Installment-payment reconciliation of one order document.               *)
(*                                                                         *)
(* The order lives in the document store (db).  It is mutated by           *)
(*   - the Stripe and MercadoPago webhook handlers (getDoc, then later     *)
(*     updateDoc of a whole-array patch),                                  *)
(*   - the order-confirmation page's poll-and-reconcile effect,            *)
(*   - the admin operations of AdminContext, which compute their patch     *)
(*     from the locally held onSnapshot copy (orders) of the document and  *)
(*     leave the write pending: it reaches the store in a later step.      *)
(*                                                                         *)
(* Money is a JavaScript number, an IEEE 754 double.  Amounts that the     *)
(* code takes as given (an installment's amount, a payment's amount) are   *)
(* held as whole cents c and stand for the double nearest to c / 100;      *)
(* amounts that the code computes (paidAmount, total, discount,            *)
(* downPayment) are held as the double itself, see "binary floating        *)
(* point" below, so that `x + 0.01 >= y` rounds as it does in the source.  *)
(* A JavaScript object is a record; a field the object does not have is    *)
(* not in the record's DOMAIN.  The payment fields date, method and        *)
(* receivedBy and the installment field paymentDate are written but never  *)
(* read by any operation and are left out of the records, as are the       *)
(* order's customer, seller and commission fields.                         *)
(***************************************************************************)
EXTENDS Integers, Sequences, FiniteSets, TLC

\* ----------------------------------------------------------------- bounds
\* Operations (webhook deliveries, page loads and polls, admin calls) started
\* in one behaviour.
MaxOps == 3
\* Admin calls among them.
MaxAdminOps == 1
\* Admin calls in a behaviour that holds nothing but admin calls on an order
\* as placed.
MaxOrderCalls == 2
\* Values Date.now() can take when a handler generates a payment id.
MaxClock == 1
\* Concurrent webhook requests in flight.
MaxRequests == 2
\* Largest total, in cents, and largest number of installments for which a
\* schedule is computed on its own.
MaxTotal == 120
MaxCount == 36
\* Largest number of comma-separated parts in a Stripe-Signature header.
MaxParts == 3
\* startWhatsApp and resetWhatsApp calls, and events of the WhatsApp client,
\* in one behaviour.
MaxWhatsAppCalls == 4
MaxClientEvents == 2

\* ------------------------------------------------------- program constants
\* the order of the model, and the id of an order that is not in the store
OrderId == "PED-1"
GhostId == "PED-9"
\* order.items: one product at 50.00, two units
Items == <<[price |-> 5000, quantity |-> 2]>>

Requests == 1..MaxRequests
Clock == 1..MaxClock

\* ------------------------------------------------------------ input sets
ExternalIds == {"", "p1", "p2"}
OrderRefs == {"", OrderId, GhostId}
\* metadata.installmentNumber after Number.parseInt: 0 stands for NaN / absent
InstallmentNumbers == 0..3
\* amount_total (minor units) / transaction_amount * 100
EventAmounts == {-2500, 2499, 2500, 5000}
StripeEventTypes == {"checkout.session.completed",
                     "checkout.session.async_payment_succeeded",
                     "checkout.session.async_payment_failed",
                     "payment_intent.created"}
StripePaymentStatuses == {"paid", "unpaid", "no_payment_required"}
MercadoPagoStatuses == {"approved", "rejected", "cancelled", "refunded",
                        "charged_back", "pending"}

\* db is the order's document in the store (NoDocument once it is deleted),
\* orders the admin panel's copy of it, wh the webhook requests in flight,
\* page the confirmation page, last the step taken last, nops and nadmin the
\* operations and admin calls begun, fn the last call of a pure function,
\* whatsapp the WhatsApp singleton, pending the store operations that admin
\* calls have issued and that have not reached the store yet, awaited by the
\* call or not, in the order they were issued.
VARIABLES db, orders, wh, page, last, nops, nadmin, fn, whatsapp, pending

vars == <<db, orders, wh, page, last, nops, nadmin, fn, whatsapp, pending>>

\* ------------------------------------------------------------- utilities
Max(a, b) == IF a >= b THEN a ELSE b

\* The sum of the amounts of payments or installments, in cents.
RECURSIVE SumAmounts(_)
SumAmounts(s) == IF s = <<>> THEN 0 ELSE s[1].amount + SumAmounts(Tail(s))

\* ------------------------------------------------- binary floating point
\* The double x is held as <<c, d>> with
\*     x = (c * 2^59 + d) / (100 * 2^59):
\* c hundredths, and the deviation d of x from c / 100 in units of
\* 2^-59 / 100.  Every double from 2^-7 up to 2^14 is a multiple of 2^-59, so
\* sums and differences of such doubles are held exactly before they are
\* rounded.  Rounding is to the nearest double, ties to the even one, as the
\* JavaScript operators + and - round.
RECURSIVE Pow2(_)
Pow2(n) == IF n = 0 THEN 1 ELSE 2 * Pow2(n - 1)

\* The powers of two the rounding needs, 2^0 to 2^22, computed once.
PowersOf2 == [n \in 0..22 |-> Pow2(n)]

\* 2^n modulo 100, which from 2^2 on repeats with period 20.
Pow2Mod100(n) == IF n < 2 THEN PowersOf2[n] ELSE PowersOf2[2 + ((n - 2) % 20)] % 100

\* The binades the model's amounts fall in: 2^-7 <= x < 2^14.
MinBinade == -7
MaxBinade == 13

Zero == <<0, 0>>
\* Math.round(x * 100)
Cents(x) == x[1]
\* x < 0
IsNegative(x) == x[1] < 0 \/ (x[1] = 0 /\ x[2] < 0)
Negate(x) == <<-x[1], -x[2]>>
\* x >= y
Geq(x, y) == x[1] > y[1] \/ (x[1] = y[1] /\ x[2] >= y[2])

\* x >= 2^j, for a real x >= 0: 2^j is 25 * 2^(j + 2) hundredths.
AtLeastPow2(x, j) ==
    IF j >= -2
    THEN LET t == 25 * PowersOf2[j + 2] IN x[1] > t \/ (x[1] = t /\ x[2] >= 0)
    ELSE x[1] > 25 \div PowersOf2[-j - 2]

\* The exponent k of the spacing 2^k * 2^-59 of the doubles around the real
\* x >= 0: 2^(j - 52) in the binade 2^j <= x < 2^(j + 1), searched from
\* binade j down.  Below 2^-7 every multiple of 2^-59 is a double.
RECURSIVE UlpExponent(_, _)
UlpExponent(x, j) ==
    IF j < MinBinade THEN 0
    ELSE IF AtLeastPow2(x, j) THEN j + 7
    ELSE UlpExponent(x, j - 1)

\* Math.abs(x)
Abs(x) == IF IsNegative(x) THEN Negate(x) ELSE x

\* a modulo 100 * 2^n, for a real a >= 0 in units of 2^-59 / 100.
ModuloSpacing(a, n) ==
    (PowersOf2[n] * (((a[1] % 100) * Pow2Mod100(59 - n)) % 100) + a[2]) % (100 * PowersOf2[n])

\* The multiple of q nearest to a, a tie going to the even multiple: r2 is a
\* modulo 2 * q, so r2 % q is the distance to the multiple below, which is
\* an odd one when r2 >= q.
NearestMultiple(a, q, r2) ==
    IF r2 % q = 0 THEN a
    ELSE IF 2 * (r2 % q) < q \/ (2 * (r2 % q) = q /\ r2 < q) THEN <<a[1], a[2] - (r2 % q)>>
    ELSE <<a[1], a[2] - (r2 % q) + q>>

\* The double nearest to the real a >= 0 where the doubles are 2^k * 2^-59
\* apart: in units of 2^-59 / 100 they are the multiples of 100 * 2^k.
RoundMagnitude(a, k) == NearestMultiple(a, 100 * PowersOf2[k], ModuloSpacing(a, k + 1))

RoundAbs(a) == RoundMagnitude(a, UlpExponent(a, MaxBinade))

WithSign(neg, a) == IF neg THEN Negate(a) ELSE a

\* The double nearest to the real (c * 2^59 + d) / (100 * 2^59).  A multiple
\* of 0.25 is a double.
Round(x) ==
    IF x[2] = 0 /\ x[1] % 25 = 0 THEN x
    ELSE WithSign(IsNegative(x), RoundAbs(Abs(x)))

\* The number literal or JSON number of c hundredths, and amount / 100 of
\* an integer amount of minor units.
FromCents(c) == Round(<<c, 0>>)
\* x + y, x - y, and x * n for an integer n
Add(x, y) == Round(<<x[1] + y[1], x[2] + y[2]>>)
Sub(x, y) == Round(<<x[1] - y[1], x[2] - y[2]>>)
Times(x, n) == Round(<<x[1] * n, x[2] * n>>)
\* 0.01
Tolerance == FromCents(1)

\* records.reduce((sum, r) => sum + r.amount, sum): the amounts of payments or
\* installments added up in doubles, from the accumulator sum on.
RECURSIVE SumFrom(_, _)
SumFrom(sum, records) ==
    IF records = <<>> THEN sum
    ELSE SumFrom(Add(sum, FromCents(records[1].amount)), Tail(records))

RECURSIVE FilterOutId(_, _)
FilterOutId(ps, id) ==
    IF ps = <<>> THEN <<>>
    ELSE IF ps[1].id = id THEN FilterOutId(Tail(ps), id)
         ELSE <<ps[1]>> \o FilterOutId(Tail(ps), id)

\* { ...docu, ...patch }, and updateDoc(ref, patch) on the document docu: the
\* fields of the patch replace those of the document or are added to it.
Merge(docu, patch) ==
    [f \in (DOMAIN docu) \cup (DOMAIN patch) |->
        IF f \in DOMAIN patch THEN patch[f] ELSE docu[f]]

\* What getDoc finds, and what the orders listener holds, when the store has
\* no document of the order: snap.exists() is false, orders.find(...) is
\* undefined.
NoDocument == <<>>

\* `order.installmentDetails || []` and
\* `Array.isArray(orderData?.installmentDetails) ? ... : []`
InstallmentDetailsOf(docu) ==
    IF "installmentDetails" \in DOMAIN docu THEN docu.installmentDetails ELSE <<>>

HasPaymentId(inst, id) == \E i \in 1..Len(inst.payments) : inst.payments[i].id = id

AllPaid(insts) == Len(insts) > 0 /\ \A i \in 1..Len(insts) : insts[i].status = "Pago"

\* ------------------------------------------------- recalculateInstallments
\* The total is a double; Math.round(total * 100) is its hundredths.  An
\* amount of installmentValueCents / 100 is held as installmentValueCents.
\* Due dates are month indices.
\* `inst-${orderId}-${i + 1}`
InstallmentId(orderId, installmentNumber) ==
    "inst-" \o orderId \o "-" \o ToString(installmentNumber)

\* An installment numbered from zero: the object pushed for index i carries
\* i where the source has i + 1.  The shape property C26 is checked to fail
\* against it.
NewInstallmentFromZero(i, installmentValueCents, orderId, firstDueDate) ==
    [id |-> InstallmentId(orderId, i),
     installmentNumber |-> i,
     amount |-> installmentValueCents,
     dueDate |-> firstDueDate + i,
     status |-> "Pendente",
     paidAmount |-> Zero,
     payments |-> <<>>]

NewInstallment(i, installmentValueCents, orderId, firstDueDate) ==
    [id |-> InstallmentId(orderId, i + 1),
     installmentNumber |-> i + 1,
     amount |-> installmentValueCents,
     dueDate |-> firstDueDate + i,
     status |-> "Pendente",
     paidAmount |-> Zero,
     payments |-> <<>>]

\* A schedule that drops the remainder cents: every installment gets the base
\* value.  The exact-sum property C11 is checked to fail against it.
recalculateInstallmentsTruncating(total, installmentsCount, orderId, firstDueDate) ==
    IF installmentsCount <= 0 \/ IsNegative(total) THEN <<>>
    ELSE [i \in 1..installmentsCount |->
            NewInstallment(i - 1, Cents(total) \div installmentsCount, orderId, firstDueDate)]

\* A schedule that gives the remainder cents to the last installments instead
\* of the first.  The ordering property C12 is checked to fail against it.
recalculateInstallmentsTrailing(total, installmentsCount, orderId, firstDueDate) ==
    IF installmentsCount <= 0 \/ IsNegative(total) THEN <<>>
    ELSE [i \in 1..installmentsCount |->
            NewInstallment(i - 1,
                           (Cents(total) \div installmentsCount)
                             + (IF i > installmentsCount - (Cents(total) % installmentsCount)
                                THEN 1 ELSE 0),
                           orderId, firstDueDate)]

\* The for loop of recalculateInstallments from index i on, with the
\* remainder cents still to hand out.
RECURSIVE InstallmentLoop(_, _, _, _, _, _)
InstallmentLoop(i, installmentsCount, baseInstallmentValueInCents, remainderInCents, orderId, firstDueDate) ==
    IF i >= installmentsCount THEN <<>>
    ELSE LET installmentValueCents ==
                 IF remainderInCents > 0 THEN baseInstallmentValueInCents + 1
                 ELSE baseInstallmentValueInCents
             remainderLeft ==
                 IF remainderInCents > 0 THEN remainderInCents - 1 ELSE remainderInCents
         IN <<NewInstallment(i, installmentValueCents, orderId, firstDueDate)>>
            \o InstallmentLoop(i + 1, installmentsCount, baseInstallmentValueInCents,
                               remainderLeft, orderId, firstDueDate)

recalculateInstallments(total, installmentsCount, orderId, firstDueDate) ==
    IF installmentsCount <= 0 \/ IsNegative(total) THEN <<>>
    ELSE LET totalInCents == Cents(total)
             baseInstallmentValueInCents == totalInCents \div installmentsCount
             remainderInCents == totalInCents % installmentsCount
         IN InstallmentLoop(0, installmentsCount, baseInstallmentValueInCents,
                            remainderInCents, orderId, firstDueDate)

\* items.reduce((acc, item) => acc + item.price * item.quantity, 0), from the
\* accumulator acc on.
RECURSIVE SubtotalFrom(_, _)
SubtotalFrom(acc, items) ==
    IF items = <<>> THEN acc
    ELSE SubtotalFrom(Add(acc, Times(FromCents(items[1].price), items[1].quantity)),
                      Tail(items))

SubtotalOf(items) == SubtotalFrom(Zero, items)

\* ---------------------------------------------------------------- addOrder
\* The order document addOrder saves for an order of the given number of
\* installments, discount and down payment (in cents): total is the price
\* after discount, the schedule splits the financed amount (total less the
\* down payment) and is set only for an order in installments.  The status
\* is the one of the order passed in, here that of a new order.  Dates are
\* month indices; the order is placed, and first falls due, in month 0.
addOrder(installments, discount, downPayment) ==
    LET subtotal == SubtotalOf(Items)
        total == Sub(subtotal, FromCents(discount))
        totalFinanced == Sub(total, FromCents(downPayment))
        orderToSave == [status |-> "Processando",
                        paymentStatus |-> "Pendente",
                        paymentProvider |-> "",
                        paymentSessionId |-> "",
                        date |-> 0,
                        installments |-> installments,
                        discount |-> FromCents(discount),
                        downPayment |-> FromCents(downPayment),
                        total |-> total]
    IN IF installments > 0
       THEN Merge(orderToSave,
                  [installmentDetails |->
                      recalculateInstallments(totalFinanced, installments, OrderId, 0)])
       ELSE orderToSave

\* -------------------------------------------------------- status mapping
paymentStatusFromStripe(paymentStatus) ==
    IF paymentStatus = "paid" THEN "Pago"
    ELSE IF paymentStatus = "unpaid" THEN "Pendente"
    ELSE "Pendente"

paymentStatusFromMercadoPago(status) ==
    IF status = "approved" THEN "Pago"
    ELSE IF status \in {"rejected", "cancelled"} THEN "Falhou"
    ELSE IF status \in {"refunded", "charged_back"} THEN "Falhou"
    ELSE "Pendente"

\* A normalisation that looks at the session's payment_status only, whatever
\* the event type.  The normalisation property C21 is checked to fail
\* against it.
StripeNextPaymentStatusOfSession(eventType, paymentStatus) ==
    paymentStatusFromStripe(paymentStatus)

StripeNextPaymentStatus(eventType, paymentStatus) ==
    IF eventType = "checkout.session.async_payment_failed" THEN "Falhou"
    ELSE paymentStatusFromStripe(paymentStatus)

StripeShouldUpdate(eventType) ==
    eventType \in {"checkout.session.completed",
                   "checkout.session.async_payment_succeeded",
                   "checkout.session.async_payment_failed"}

\* --------------------------------------------- webhook installment update
\* A handler without the duplicate-delivery guard: every delivery is applied.
\* The redelivery property C2 is checked to fail against it.
IsDuplicateUnguarded(inst, externalId) == FALSE

\* The duplicate-delivery guard of both handlers: a non-empty external id
\* already recorded on the installment.
IsDuplicate(inst, externalId) ==
    externalId # "" /\ HasPaymentId(inst, externalId)

\* One element of the installmentDetails.map of the handlers; paidAmount is
\* the handler's local, in cents.
ApplyToInstallment(inst, installmentNumber, externalId, generatedId, paidAmount) ==
    IF inst.installmentNumber # installmentNumber THEN inst
    ELSE IF IsDuplicate(inst, externalId) THEN inst
    ELSE LET newPaidAmount == Add(inst.paidAmount, FromCents(paidAmount))
             isPaid == Geq(Add(newPaidAmount, Tolerance), FromCents(inst.amount))
         IN [inst EXCEPT
               !.paidAmount = newPaidAmount,
               !.status = IF isPaid THEN "Pago" ELSE "Pendente",
               !.payments = Append(@, [id |-> IF externalId # "" THEN externalId
                                                ELSE generatedId,
                                       amount |-> paidAmount])]

NextInstallments(insts, installmentNumber, externalId, generatedId, paidAmount) ==
    [i \in 1..Len(insts) |->
        ApplyToInstallment(insts[i], installmentNumber, externalId, generatedId,
                           paidAmount)]

\* A handler that writes its array whether or not an installment was
\* updated.  The no-match property C29 is checked to fail against it.
DidUpdateAlways(insts, installmentNumber, externalId) == TRUE

\* didUpdate after the map: an installment of the number was there and the
\* delivery was not a duplicate.
DidUpdate(insts, installmentNumber, externalId) ==
    \E i \in 1..Len(insts) :
        /\ insts[i].installmentNumber = installmentNumber
        /\ ~IsDuplicate(insts[i], externalId)

\* The patch of the installment branch: the whole array, and the order-level
\* status only when every installment of the array is Pago.
InstallmentPatch(nextInstallments) ==
    IF AllPaid(nextInstallments)
    THEN [installmentDetails |-> nextInstallments, paymentStatus |-> "Pago"]
    ELSE [installmentDetails |-> nextInstallments]

\* The store holds a document under the order id.
Exists(orderId) == orderId = OrderId /\ db # NoDocument

\* getDoc(...).catch(() => null): the installments the handler sees.
ReadInstallments(orderId, readOk) ==
    IF readOk /\ Exists(orderId) THEN InstallmentDetailsOf(db) ELSE <<>>

\* A request slot: where the handler stands, and while its updateDoc is
\* pending the handler's locals installmentNumber, sessionId / paymentIdStr,
\* paidAmount and patch.
IdleRequest == [pc |-> "idle", installmentNumber |-> 0, id |-> "", paidAmount |-> 0,
                patch |-> [installmentDetails |-> <<>>]]

\* `stripe-${Date.now()}` / `mercadopago-${Date.now()}`
GeneratedId(prefix, now) == prefix \o "-" \o ToString(now)

\* The lowest request slot that is free: requests are interchangeable.
FreeSlot(s) == wh[s].pc = "idle" /\ \A r \in Requests : r < s => wh[r].pc # "idle"

\* last records the step just taken: the operation and how it ended, and for
\* a delivery that took the installment branch the installment number and
\* the external payment id of the event (0 and "" otherwise).
Delivery(op, outcome, installmentNumber, externalId) ==
    [op |-> op, outcome |-> outcome, inst |-> installmentNumber, id |-> externalId]

Step(op, outcome) == Delivery(op, outcome, 0, "")

Began(op, outcome) ==
    /\ nops < MaxOps
    /\ nops' = nops + 1
    /\ last' = Step(op, outcome)
    /\ UNCHANGED <<nadmin, fn, whatsapp, pending>>

\* An admin call on an installment begins; last keeps the installment number
\* and the payment id it was called with.  How many admin calls a behaviour
\* holds is limited where the calls are put together (Admin).
AdminBeganOn(op, outcome, installmentNumber, paymentId) ==
    /\ nops < MaxOps
    /\ nops' = nops + 1 /\ nadmin' = nadmin + 1
    /\ last' = Delivery(op, outcome, installmentNumber, paymentId)
    /\ UNCHANGED <<fn, whatsapp>>

AdminBegan(op, outcome) == AdminBeganOn(op, outcome, 0, "")

\* ------------------------------------------------------------------ events
\* A Stripe request: whether its signature verifies, and the fields of the
\* event the handler reads.  Fields that the path an event takes never reads
\* are held at one value; an installment number matching no installment and
\* a negative amount are tried with one id each, as is 24.99, an amount
\* whose sums are not whole cents in doubles.
StripeEvents ==
    {e \in [verified : BOOLEAN, type : StripeEventTypes, orderId : OrderRefs,
            id : ExternalIds, payment_status : StripePaymentStatuses,
            installmentNumber : InstallmentNumbers, amount_total : EventAmounts] :
        LET targeted == /\ e.installmentNumber > 0
                        /\ StripeNextPaymentStatus(e.type, e.payment_status) = "Pago"
            reconciles == e.verified /\ StripeShouldUpdate(e.type) /\ e.orderId # ""
        IN /\ ~reconciles =>
                /\ e.id = "p1" /\ e.payment_status = "paid"
                /\ e.installmentNumber = 1 /\ e.amount_total = 2500
                /\ (~e.verified => e.type = "checkout.session.completed" /\ e.orderId = OrderId)
                /\ (e.orderId = "" => e.type = "checkout.session.completed")
                /\ (~StripeShouldUpdate(e.type) => e.orderId = OrderId)
           /\ (reconciles /\ ~targeted) =>
                /\ e.amount_total = 2500 /\ e.installmentNumber \in {0, 1}
                /\ e.id \in {"", "p1"}
                /\ (e.installmentNumber = 1 => e.id = "p1")
           /\ (reconciles /\ targeted) =>
                /\ e.type = "checkout.session.completed"
                /\ (e.installmentNumber = 3 => e.id = "p1" /\ e.amount_total = 2500)
                /\ (e.amount_total < 0 => e.id = "p1" /\ e.installmentNumber = 1)
                /\ (e.amount_total = 2499 => e.id = "p1" /\ e.installmentNumber = 1)
                /\ (e.id = "" => e.amount_total = 2500 /\ e.installmentNumber = 1)
                /\ (e.id = "p2" => e.amount_total = 2500)
           /\ (reconciles /\ e.orderId = GhostId) =>
                /\ e.id = "p1" /\ e.amount_total = 2500 /\ e.installmentNumber \in {0, 1}
                /\ e.type = "checkout.session.completed" /\ e.payment_status = "paid"}

\* A MercadoPago notification together with what the payment lookup returns.
MercadoPagoEvents ==
    {e \in [paymentId : {"", "p1"}, lookupOk : BOOLEAN, orderId : OrderRefs,
            id : ExternalIds, status : MercadoPagoStatuses,
            installmentNumber : InstallmentNumbers, amount : EventAmounts] :
        LET targeted == /\ e.installmentNumber > 0
                        /\ paymentStatusFromMercadoPago(e.status) = "Pago"
            reconciles == e.paymentId # "" /\ e.lookupOk /\ e.orderId # ""
        IN /\ ~reconciles =>
                /\ e.id = "p1" /\ e.status = "approved"
                /\ e.installmentNumber = 1 /\ e.amount = 2500
                /\ (e.paymentId = "" => e.lookupOk /\ e.orderId = OrderId)
                /\ (~e.lookupOk => e.orderId = OrderId)
           /\ (reconciles /\ ~targeted) =>
                /\ e.amount = 2500 /\ e.installmentNumber \in {0, 1} /\ e.id = "p1"
           /\ (reconciles /\ targeted) =>
                /\ (e.installmentNumber = 3 => e.id = "p1" /\ e.amount = 2500)
                /\ (e.amount < 0 => e.id = "p1" /\ e.installmentNumber = 1)
                /\ (e.amount = 2499 => e.id = "p1" /\ e.installmentNumber = 1)
                /\ (e.id = "" => e.amount = 2500 /\ e.installmentNumber = 1)
                /\ (e.id = "p2" => e.amount = 2500)
           /\ (reconciles /\ e.orderId = GhostId) =>
                /\ e.id = "p1" /\ e.amount = 2500 /\ e.installmentNumber \in {0, 1}
                /\ e.status = "approved"}

\* ---------------------------------------------------------------- webhooks
\* The installment branch up to its getDoc: the patch is computed from the
\* installments read and, when an installment was updated, its updateDoc is
\* left pending in the request.
InstallmentBranch(s, op, orderId, installmentNumber, externalId, generatedId, paidAmount, readOk) ==
    LET installmentDetails == ReadInstallments(orderId, readOk)
        nextInstallments == NextInstallments(installmentDetails, installmentNumber,
                                             externalId, generatedId, paidAmount)
        didUpdate == DidUpdate(installmentDetails, installmentNumber, externalId)
        duplicate == \E i \in 1..Len(installmentDetails) :
                        /\ installmentDetails[i].installmentNumber = installmentNumber
                        /\ IsDuplicate(installmentDetails[i], externalId)
    IN /\ nops < MaxOps
       /\ nops' = nops + 1
       /\ last' = Delivery(op, IF didUpdate THEN "read"
                               ELSE IF duplicate THEN "duplicate" ELSE "nomatch",
                           installmentNumber, externalId)
       /\ UNCHANGED <<nadmin, fn, whatsapp, pending>>
       /\ wh' = IF didUpdate
                THEN [wh EXCEPT ![s] = [pc |-> "update",
                                        installmentNumber |-> installmentNumber,
                                        id |-> externalId,
                                        paidAmount |-> paidAmount,
                                        patch |-> InstallmentPatch(nextInstallments)]]
                ELSE wh
       /\ UNCHANGED <<db, orders, page>>

\* A stamp that would replace the document's installments along with the
\* status, as a write of the whole order would.  The frame property C20 is
\* checked to fail against it.
StampBranchReplacing(op, orderId, patch, writeOk) ==
    /\ Began(op, IF writeOk /\ Exists(orderId) THEN "stamped" ELSE "failed")
    /\ db' = IF writeOk /\ Exists(orderId)
             THEN Merge(Merge(db, patch), [installmentDetails |-> <<>>])
             ELSE db
    /\ UNCHANGED <<orders, wh, page>>

\* The order-level stamp: one updateDoc, which fails on a missing document
\* or a store error and is then swallowed by .catch(() => null).
StampBranch(op, orderId, patch, writeOk) ==
    /\ Began(op, IF writeOk /\ Exists(orderId) THEN "stamped" ELSE "failed")
    /\ db' = IF writeOk /\ Exists(orderId) THEN Merge(db, patch) ELSE db
    /\ UNCHANGED <<orders, wh, page>>

StripePatch(nextPaymentStatus, sessionId) ==
    IF sessionId # ""
    THEN [paymentProvider |-> "Stripe", paymentStatus |-> nextPaymentStatus,
          paymentSessionId |-> sessionId]
    ELSE [paymentProvider |-> "Stripe", paymentStatus |-> nextPaymentStatus]

MercadoPagoPatch(nextPaymentStatus) ==
    [paymentProvider |-> "MercadoPago", paymentStatus |-> nextPaymentStatus]

\* A handler that goes on to reconcile whatever the order reference is.  The
\* no-correlation property C17 is checked to fail against it.
CorrelatedAlways(orderId) == TRUE

\* `if (shouldUpdate && orderId)` / `if (orderId)`: the event names an order.
Correlated(orderId) == orderId # ""

\* A handler that lets every request through, whatever its signature.  The
\* rejection property C14 is checked to fail against it.
SignatureAcceptedAlways(e) == TRUE

\* verifyStripeSignature(rawBody, signature, webhookSecret) of the request.
SignatureAccepted(e) == e.verified

\* POST of the Stripe webhook route, to its first store access.
StripePOST(s, e, now, ok) ==
    /\ FreeSlot(s)
    /\ IF ~SignatureAccepted(e)
       THEN Began("stripe", "400") /\ UNCHANGED <<db, orders, wh, page>>
       ELSE IF ~(StripeShouldUpdate(e.type) /\ Correlated(e.orderId))
       THEN Began("stripe", "ignored") /\ UNCHANGED <<db, orders, wh, page>>
       ELSE LET nextPaymentStatus == StripeNextPaymentStatus(e.type, e.payment_status)
                isInstallmentPayment == e.installmentNumber > 0
            IN IF isInstallmentPayment /\ nextPaymentStatus = "Pago"
               THEN InstallmentBranch(s, "stripe", e.orderId, e.installmentNumber, e.id,
                                      GeneratedId("stripe", now),
                                      Max(0, e.amount_total), ok)
               ELSE StampBranch("stripe", e.orderId, StripePatch(nextPaymentStatus, e.id), ok)

\* POST of the MercadoPago webhook route, to its first store access.
MercadoPagoPOST(s, e, now, ok) ==
    /\ FreeSlot(s)
    /\ IF e.paymentId = ""
       THEN Began("mercadopago", "400") /\ UNCHANGED <<db, orders, wh, page>>
       ELSE IF ~e.lookupOk
       THEN Began("mercadopago", "500") /\ UNCHANGED <<db, orders, wh, page>>
       ELSE IF ~Correlated(e.orderId)
       THEN Began("mercadopago", "ignored") /\ UNCHANGED <<db, orders, wh, page>>
       ELSE LET nextPaymentStatus == paymentStatusFromMercadoPago(e.status)
                isInstallmentPayment == e.installmentNumber > 0
            IN IF isInstallmentPayment /\ nextPaymentStatus = "Pago"
               THEN InstallmentBranch(s, "mercadopago", e.orderId, e.installmentNumber, e.id,
                                      GeneratedId("mercadopago", now),
                                      Max(0, e.amount), ok)
               ELSE StampBranch("mercadopago", e.orderId, MercadoPagoPatch(nextPaymentStatus), ok)

\* A write that would add the request's payment to the installment as stored
\* at the time of the write, instead of replacing the array by the one the
\* request computed from its read.  The race property C4 is checked to fail
\* against it.
WebhookUpdateDocAppending(s, writeOk) ==
    LET stored == InstallmentDetailsOf(db)
        written == writeOk /\ db # NoDocument
        credited(inst) ==
            IF inst.installmentNumber # wh[s].installmentNumber THEN inst
            ELSE [inst EXCEPT !.paidAmount = Add(inst.paidAmount, FromCents(wh[s].paidAmount)),
                              !.payments = Append(inst.payments,
                                                  [id |-> wh[s].id,
                                                   amount |-> wh[s].paidAmount])]
    IN /\ wh[s].pc = "update"
       /\ db' = IF written
                THEN Merge(db, [installmentDetails |->
                                   [i \in 1..Len(stored) |-> credited(stored[i])]])
                ELSE db
       /\ wh' = [wh EXCEPT ![s] = IdleRequest]
       /\ last' = Step("updateDoc", IF written THEN "written" ELSE "failed")
       /\ UNCHANGED <<orders, page, nops, nadmin, fn, whatsapp, pending>>

\* The pending updateDoc(orderRef, patch).catch(() => null) of a request; it
\* fails on a store error and when the document is no longer there.
WebhookUpdateDoc(s, writeOk) ==
    /\ wh[s].pc = "update"
    /\ db' = IF writeOk /\ db # NoDocument THEN Merge(db, wh[s].patch) ELSE db
    /\ wh' = [wh EXCEPT ![s] = IdleRequest]
    /\ last' = Step("updateDoc", IF writeOk /\ db # NoDocument THEN "written" ELSE "failed")
    /\ UNCHANGED <<orders, page, nops, nadmin, fn, whatsapp, pending>>

\* ------------------------------------------------------------ admin inputs
AdminPayments == {[id |-> "a1", amount |-> 5000], [id |-> "a1", amount |-> 7500],
                  [id |-> "a1", amount |-> -2500], [id |-> "p1", amount |-> 2500],
                  [id |-> "a1", amount |-> 4999]}
\* The payment ids the admin can ask to reverse on an installment of the
\* listener's copy: those listed on it, and one that is not.
ReversalIds(installmentNumber) ==
    LET insts == InstallmentDetailsOf(orders)
    IN {"none"} \cup
       UNION {{insts[i].payments[k].id : k \in 1..Len(insts[i].payments)} :
              i \in {j \in 1..Len(insts) : insts[j].installmentNumber = installmentNumber}}
AdminInstallmentNumbers == 1..2
NewDueDates == {6}
NewAmounts == {2500, 10000}
\* the fields of `details` that updateOrderDetails reads for the schedule:
\* installments 0 and downPayment 0 stand for an absent field (both are falsy
\* in the source's tests), discount is a sequence of at most one value.
OrderDetails == [installments : 0..2, discount : {<<>>, <<5000>>},
                 downPayment : {0, 5000}, resetDownPayment : BOOLEAN]
\* The statuses updateOrderStatus is called with: 'Excluído' is deleteOrder,
\* which moves the order to the trash, the other takes it out again.
NewStatuses == {"Processando", "Excluído"}
\* data.orders of the backup restoreAdminData is called with: no order, or
\* the order as it was placed in one installment or in two.
BackupOrders == {NoDocument, addOrder(1, 0, 0), addOrder(2, 0, 0)}

\* The call that waits at place i of pending goes on to wait for its next
\* operation, or ends when it has none (<<>>).
Resumed(i, next) ==
    IF next = <<>> THEN SubSeq(pending, 1, i - 1) \o SubSeq(pending, i + 1, Len(pending))
    ELSE [pending EXCEPT ![i] = next[1]]

\* An admin operation issues updateDoc(orderRef, patch).then(...).catch(...)
\* and returns without waiting for it: the write is left pending, with the
\* installment number and the payment id the operation was called with.
IssueUpdateDoc(op, installmentNumber, paymentId, patch) ==
    /\ AdminBeganOn(op, "pending", installmentNumber, paymentId)
    /\ pending' = Append(pending, [call |-> op, step |-> "updateDoc", patch |-> patch,
                                   inst |-> installmentNumber, id |-> paymentId])
    /\ UNCHANGED <<db, orders, wh, page>>

\* How an updateDoc on the order's document ends: it fails on a store error
\* and when the document is not there.
UpdateOutcome(updateOk) == IF updateOk /\ db # NoDocument THEN "written" ELSE "failed"

\* The pending updateDoc of an admin operation reaches the store, after
\* whatever other steps were taken since the operation issued it.
AdminUpdateDoc(i, updateOk) ==
    /\ pending[i].step = "updateDoc"
    /\ db' = IF updateOk /\ db # NoDocument THEN Merge(db, pending[i].patch) ELSE db
    /\ pending' = Resumed(i, <<>>)
    /\ last' = Delivery(pending[i].call, UpdateOutcome(updateOk), pending[i].inst,
                        pending[i].id)
    /\ UNCHANGED <<orders, wh, page, nops, nadmin, fn, whatsapp>>

\* `if (!order) return;`: the operation ends without a store call.
AdminReturned(op) ==
    /\ AdminBegan(op, "returned")
    /\ UNCHANGED <<db, orders, wh, page, pending>>

\* -------------------------------------------------- recordInstallmentPayment
RecordedInstallment(inst, installmentNumber, payment) ==
    IF inst.installmentNumber = installmentNumber
    THEN LET newPaidAmount == Add(inst.paidAmount, FromCents(payment.amount))
             \* Math.abs(newPaidAmount - inst.amount) < 0.01
             isPaid == ~Geq(Abs(Sub(newPaidAmount, FromCents(inst.amount))), Tolerance)
         IN [inst EXCEPT !.status = IF isPaid THEN "Pago" ELSE "Pendente",
                         !.paidAmount = newPaidAmount,
                         !.payments = Append(@, payment)]
    ELSE inst

recordInstallmentPayment(installmentNumber, paymentData) ==
    LET order == orders
        installmentDetails == InstallmentDetailsOf(order)
        updatedInstallments ==
            [i \in 1..Len(installmentDetails) |->
                RecordedInstallment(installmentDetails[i], installmentNumber, paymentData)]
    IN IF order = NoDocument THEN AdminReturned("recordInstallmentPayment")
       ELSE IssueUpdateDoc("recordInstallmentPayment", 0, "",
                           [installmentDetails |-> updatedInstallments])

\* ------------------------------------------------------------ reversePayment
ReversedInstallment(inst, installmentNumber, paymentId) ==
    IF inst.installmentNumber = installmentNumber
    THEN IF ~HasPaymentId(inst, paymentId) THEN inst
         ELSE LET first == CHOOSE i \in 1..Len(inst.payments) :
                              /\ inst.payments[i].id = paymentId
                              /\ \A j \in 1..(i - 1) : inst.payments[j].id # paymentId
                  reversedPaymentAmount == inst.payments[first].amount
                  newPaidAmount == Sub(inst.paidAmount, FromCents(reversedPaymentAmount))
              IN [inst EXCEPT !.payments = FilterOutId(@, paymentId),
                              !.paidAmount = newPaidAmount,
                              !.status = IF Geq(newPaidAmount, FromCents(inst.amount))
                                         THEN "Pago" ELSE "Pendente"]
    ELSE inst

reversePayment(installmentNumber, paymentId) ==
    LET order == orders
        installmentDetails == InstallmentDetailsOf(order)
        updatedInstallments ==
            [i \in 1..Len(installmentDetails) |->
                ReversedInstallment(installmentDetails[i], installmentNumber, paymentId)]
    IN IF order = NoDocument
       THEN /\ AdminBeganOn("reversePayment", "returned", installmentNumber, paymentId)
            /\ UNCHANGED <<db, orders, wh, page, pending>>
       ELSE IssueUpdateDoc("reversePayment", installmentNumber, paymentId,
                           [installmentDetails |-> updatedInstallments])

\* -------------------------------------------------- updateInstallmentDueDate
updateInstallmentDueDate(installmentNumber, newDueDate) ==
    LET order == orders
        installmentDetails == InstallmentDetailsOf(order)
        updatedInstallments ==
            [i \in 1..Len(installmentDetails) |->
                IF installmentDetails[i].installmentNumber = installmentNumber
                THEN [installmentDetails[i] EXCEPT !.dueDate = newDueDate]
                ELSE installmentDetails[i]]
    IN IF order = NoDocument THEN AdminReturned("updateInstallmentDueDate")
       ELSE IssueUpdateDoc("updateInstallmentDueDate", 0, "",
                           [installmentDetails |-> updatedInstallments])

\* --------------------------------------------------- updateInstallmentAmount
updateInstallmentAmount(installmentNumber, newAmount) ==
    LET order == orders
        updatedInstallments ==
            [i \in 1..Len(order.installmentDetails) |->
                IF order.installmentDetails[i].installmentNumber = installmentNumber
                THEN [order.installmentDetails[i] EXCEPT !.amount = newAmount]
                ELSE order.installmentDetails[i]]
        \* updatedInstallments.reduce((sum, inst) => sum + inst.amount, 0)
        newTotalFinanced == SumFrom(Zero, updatedInstallments)
        subtotal == SubtotalOf(Items)
        newDiscount == Sub(subtotal, Add(newTotalFinanced, order.downPayment))
    IN IF order = NoDocument \/ "installmentDetails" \notin DOMAIN order
       THEN AdminReturned("updateInstallmentAmount")
       ELSE IssueUpdateDoc("updateInstallmentAmount", 0, "",
                           [installmentDetails |-> updatedInstallments,
                            total |-> newTotalFinanced,
                            discount |-> newDiscount])

\* -------------------------------------------------------- updateOrderDetails
updateOrderDetails(details) ==
    LET order == orders
        subtotal == SubtotalOf(Items)
        hasInstallmentsChanged == details.installments # 0
                                  /\ details.installments # order.installments
        hasDiscountChanged == details.discount # <<>>
                              /\ FromCents(details.discount[1]) # order.discount
        hasDownPayment == details.downPayment > 0
        currentDownPayment == IF details.resetDownPayment THEN Zero
                              ELSE IF hasDownPayment
                                   THEN Add(order.downPayment, FromCents(details.downPayment))
                                   ELSE order.downPayment
        otherDetails == IF details.installments # 0 /\ details.discount # <<>>
                        THEN [installments |-> details.installments,
                              discount |-> FromCents(details.discount[1])]
                        ELSE IF details.installments # 0
                        THEN [installments |-> details.installments]
                        ELSE IF details.discount # <<>>
                        THEN [discount |-> FromCents(details.discount[1])]
                        ELSE <<>>
        currentDiscount == IF hasDiscountChanged THEN FromCents(details.discount[1])
                           ELSE order.discount
        totalAfterDiscountAndEntry == Sub(Sub(subtotal, currentDiscount), currentDownPayment)
        currentInstallments == IF hasInstallmentsChanged THEN details.installments
                               ELSE order.installments
        newInstallmentDetails ==
            recalculateInstallments(totalAfterDiscountAndEntry, currentInstallments,
                                    OrderId, order.date)
        detailsToUpdate ==
            IF hasInstallmentsChanged \/ hasDiscountChanged \/ hasDownPayment
               \/ details.resetDownPayment
            THEN [total |-> totalAfterDiscountAndEntry,
                  discount |-> currentDiscount,
                  installments |-> currentInstallments,
                  installmentDetails |-> newInstallmentDetails,
                  downPayment |-> currentDownPayment]
            ELSE otherDetails
    IN IF order = NoDocument THEN AdminReturned("updateOrderDetails")
       ELSE IssueUpdateDoc("updateOrderDetails", 0, "", detailsToUpdate)

\* --------------------------------------------------------- updateOrderStatus
\* updateOrderStatus, and deleteOrder for the status 'Excluído'.  The stock
\* and the commission it also maintains are not part of the order's payment
\* state.
updateOrderStatus(newStatus) ==
    LET orderToUpdate == orders
    IN IF orderToUpdate = NoDocument THEN AdminReturned("updateOrderStatus")
       ELSE IssueUpdateDoc("updateOrderStatus", 0, "", [status |-> newStatus])

\* ------------------------------------------------------ deleting the order
\* An admin operation issues deleteDoc(orderRef), or the commit of a batch
\* that deletes the orders named, and the delete is left pending:
\* permanentlyDeleteOrder and resetOrders return without waiting for it,
\* emptyTrash awaits it.
IssueDelete(op, ids) ==
    /\ AdminBegan(op, "pending")
    /\ pending' = Append(pending, [call |-> op, step |-> "deleteDoc", ids |-> ids])
    /\ UNCHANGED <<db, orders, wh, page>>

DeleteOutcome(deleteOk) == IF deleteOk THEN "deleted" ELSE "failed"

\* The pending delete of an admin operation reaches the store: the document
\* is gone, with its installments and their payments.  Deleting a document
\* that is not there succeeds as well, and so does a batch that names none.
AdminDeleteDoc(i, deleteOk) ==
    /\ pending[i].step = "deleteDoc"
    /\ db' = IF deleteOk /\ pending[i].ids # <<>> THEN NoDocument ELSE db
    /\ pending' = Resumed(i, <<>>)
    /\ last' = Step(pending[i].call, DeleteOutcome(deleteOk))
    /\ UNCHANGED <<orders, wh, page, nops, nadmin, fn, whatsapp>>

\* Only an order in the trash is deleted for good.
permanentlyDeleteOrder ==
    LET orderToDelete == orders
    IN IF orderToDelete = NoDocument \/ orderToDelete.status # "Excluído"
       THEN AdminReturned("permanentlyDeleteOrder")
       ELSE IssueDelete("permanentlyDeleteOrder", <<OrderId>>)

\* The orders of the trash that have items, deleted in one batch.
emptyTrash ==
    LET deletedOrders == IF orders # NoDocument /\ orders.status = "Excluído"
                            /\ Len(Items) > 0
                         THEN <<OrderId>> ELSE <<>>
    IN IF deletedOrders = <<>> THEN AdminReturned("emptyTrash")
       ELSE IssueDelete("emptyTrash", deletedOrders)

\* Every order with items that the listener holds, deleted in one batch; the
\* batch is committed also when it is empty.
resetOrders ==
    IssueDelete("resetOrders", IF orders # NoDocument /\ Len(Items) > 0
                               THEN <<OrderId>> ELSE <<>>)

\* ------------------------------------------------- admin calls that await

\* ---------------------------------------------------------- restoreAdminData
\* processCollectionInBatches('orders', data.orders, orders) of a restore
\* called as `call`, up to its first commit: a batch that deletes the orders
\* the listener holds when there are any, else the batch that sets the
\* backup's orders, else none.
RestoreCall(call, data) ==
    LET currentData == orders
        first == IF currentData # NoDocument
                 THEN <<[call |-> call, step |-> "delete", data |-> data]>>
                 ELSE IF data # NoDocument
                 THEN <<[call |-> call, step |-> "set", data |-> data]>>
                 ELSE <<>>
    IN /\ AdminBegan(call, IF first = <<>> THEN "returned" ELSE "pending")
       /\ pending' = pending \o first
       /\ UNCHANGED <<db, orders, wh, page>>

restoreAdminData(data) == RestoreCall("restoreAdminData", data)

\* `await deleteBatch.commit()` of step 1: the document is gone; a failed
\* commit ends the restore, else step 2 follows when the backup has orders.
RestoreDelete(i, deleteOk) ==
    /\ pending[i].step = "delete"
    /\ db' = IF deleteOk THEN NoDocument ELSE db
    /\ pending' = Resumed(i, IF deleteOk /\ pending[i].data # NoDocument
                             THEN <<[pending[i] EXCEPT !.step = "set"]>>
                             ELSE <<>>)
    /\ last' = Step("restoreDelete", DeleteOutcome(deleteOk))
    /\ UNCHANGED <<orders, wh, page, nops, nadmin, fn, whatsapp>>

\* `await writeBatchOp.commit()` of step 2:
\* writeBatchOp.set(doc(db, 'orders', item.id), item) replaces whatever the
\* store holds under the id.
RestoreWrite(i, writeOk) ==
    /\ pending[i].step = "set"
    /\ db' = IF writeOk THEN pending[i].data ELSE db
    /\ pending' = Resumed(i, <<>>)
    /\ last' = Step("restoreWrite", IF writeOk THEN "written" ELSE "failed")
    /\ UNCHANGED <<orders, wh, page, nops, nadmin, fn, whatsapp>>

\* resetAllAdminData: restoreAdminData with a backup that holds no orders.
resetAllAdminData == RestoreCall("resetAllAdminData", NoDocument)

\* ------------------------------------------------------------ deleteCustomer
\* The roles and the customers deleteCustomer is called with.  A customer is
\* given by cpf, the result of normalizeCpf(customer.cpf || ''): that of the
\* order's customer, that of another customer, and one that is not a CPF.
UserRoles == {"admin", "gerente", "vendedor"}
CustomerCpfs == {"12345678901", "98765432100", "123"}

\* order.customer.cpf?.replace(/\D/g, '') of the order
OrderCustomerKey == "12345678901"

canAccessCustomersTrash(role) == role = "admin" \/ role = "gerente"

\* deleteCustomer up to `await getDoc(customerRef)`: the orders of the
\* customer are picked from the listener's copy before the read.
deleteCustomer(cpf, role) ==
    LET customerKey == cpf
        ordersToUpdate == IF orders # NoDocument /\ OrderCustomerKey = customerKey
                          THEN <<OrderId>> ELSE <<>>
    IN IF ~canAccessCustomersTrash(role) \/ Len(cpf) # 11
       THEN AdminReturned("deleteCustomer")
       ELSE /\ AdminBegan("deleteCustomer", "pending")
            /\ pending' = Append(pending, [call |-> "deleteCustomer", step |-> "getDoc",
                                           ordersToUpdate |-> ordersToUpdate])
            /\ UNCHANGED <<db, orders, wh, page>>

\* The read returns, with the customer's document or without; a read that
\* fails ends the call before its batch.
DeleteCustomerRead(i, readOk) ==
    /\ pending[i].step = "getDoc"
    /\ pending' = Resumed(i, IF readOk THEN <<[pending[i] EXCEPT !.step = "commit"]>>
                             ELSE <<>>)
    /\ last' = Step("deleteCustomerRead", IF readOk THEN "read" ELSE "failed")
    /\ UNCHANGED <<db, orders, wh, page, nops, nadmin, fn, whatsapp>>

\* `await batch.commit()`: the customer moves to the trash and every order
\* picked gets batch.update(..., { status: 'Excluído' }).  The batch is
\* written as a whole or not at all, and an update of a document that is
\* not there fails it.
DeleteCustomerCommit(i, commitOk) ==
    LET ordersToUpdate == pending[i].ordersToUpdate
        committed == commitOk /\ (ordersToUpdate = <<>> \/ db # NoDocument)
    IN /\ pending[i].step = "commit"
       /\ db' = IF committed /\ ordersToUpdate # <<>>
                THEN Merge(db, [status |-> "Excluído"]) ELSE db
       /\ pending' = Resumed(i, <<>>)
       /\ last' = Step("deleteCustomerCommit", IF committed THEN "written" ELSE "failed")
       /\ UNCHANGED <<orders, wh, page, nops, nadmin, fn, whatsapp>>

\* The orders listener: the admin's copy catches up with the store.
onSnapshot ==
    /\ orders # db
    /\ orders' = db
    /\ UNCHANGED <<db, wh, page, last, nops, nadmin, fn, whatsapp, pending>>

\* --------------------------------------------------- order-confirmation page
\* The query string of a page load: provider, and session_id / payment_id.
PageQueries == {<<"", "">>, <<"stripe", "p1">>, <<"stripe", "">>,
                <<"mercadopago", "p1">>}

\* What retrieve-session / retrieve-payment answers: whether the request
\* succeeded, the order reference of the payment, and the provider's status.
\* A failed request and a foreign order reference are tried with one status.
PollResponses(provider) ==
    {r \in [ok : BOOLEAN, orderId : OrderRefs,
            status : IF provider = "stripe" THEN StripePaymentStatuses
                     ELSE MercadoPagoStatuses] :
        (~r.ok \/ r.orderId = GhostId) =>
            /\ r.status \in {"paid", "approved"}
            /\ (~r.ok => r.orderId = OrderId)}

NoPage == [loaded |-> FALSE, paymentStatus |-> "", provider |-> "", extId |-> "",
           check |-> "idle"]

\* A page load: the component mounts and the first effect's getDoc sets order.
\* When the document is not there, order is set to the cart's lastOrder, the
\* order as this browser placed it, if the cart holds one; otherwise the page
\* redirects and order stays unset.  When the read fails the page redirects,
\* whatever the store and the cart hold.
PageLoad(q, hasLastOrder, readOk) ==
    /\ ~page.loaded
    /\ Began("pageLoad", IF ~readOk THEN "failed" ELSE IF db # NoDocument THEN ""
                         ELSE IF hasLastOrder THEN "lastOrder" ELSE "redirected")
    /\ page' = IF ~readOk THEN page
               ELSE IF db # NoDocument
               THEN [loaded |-> TRUE, paymentStatus |-> db.paymentStatus,
                     provider |-> q[1], extId |-> q[2], check |-> "idle"]
               ELSE IF hasLastOrder
               THEN [loaded |-> TRUE, paymentStatus |-> addOrder(1, 0, 0).paymentStatus,
                     provider |-> q[1], extId |-> q[2], check |-> "idle"]
               ELSE page
    /\ UNCHANGED <<db, orders, wh>>

\* The second effect passes its guards and starts run():
\* setPaymentCheckState('checking').
PollRun ==
    /\ page.loaded
    /\ page.provider # ""
    /\ page.paymentStatus # "Pago"
    /\ page.check # "checking"
    /\ page' = [page EXCEPT !.check = "checking"]
    /\ UNCHANGED <<db, orders, wh, last, nops, nadmin, fn, whatsapp, pending>>

PollNextStatus(provider, status) ==
    IF provider = "stripe"
    THEN (IF status = "paid" THEN "Pago" ELSE "Pendente")
    ELSE (IF status = "approved" THEN "Pago"
          ELSE IF status \in {"rejected", "cancelled"} THEN "Falhou"
          ELSE "Pendente")

PollPatch(provider, nextStatus, sessionId) ==
    IF provider = "stripe"
    THEN [paymentProvider |-> "Stripe", paymentStatus |-> nextStatus,
          paymentSessionId |-> sessionId]
    ELSE [paymentProvider |-> "MercadoPago", paymentStatus |-> nextStatus]

\* run() from the provider's answer to setPaymentCheckState('done' | 'error').
PollFinish(r, updateOk) ==
    /\ page.check = "checking"
    /\ IF page.extId = ""
       THEN \* neither provider block is entered
            /\ page' = [page EXCEPT !.check = "done"]
            /\ last' = Step("pollFinish", "skipped")
            /\ UNCHANGED db
       ELSE IF ~r.ok \/ (r.orderId # "" /\ r.orderId # OrderId) \/ ~updateOk
               \/ db = NoDocument
       THEN /\ page' = [page EXCEPT !.check = "error"]
            /\ last' = Step("pollFinish", "error")
            /\ UNCHANGED db
       ELSE LET nextStatus == PollNextStatus(page.provider, r.status)
                patch == PollPatch(page.provider, nextStatus, page.extId)
            IN /\ db' = Merge(db, patch)
               /\ page' = [page EXCEPT !.check = "done", !.paymentStatus = nextStatus]
               /\ last' = Step("pollFinish", "written")
    /\ UNCHANGED <<orders, wh, nops, nadmin, fn, whatsapp, pending>>

\* ------------------------------------------------------ WhatsApp singleton
\* globalThis.__adcproWhatsapp after createSingleton.  Clients are numbered
\* as createClient makes them.  listening is the set of clients that carry
\* the bridge's listeners, inits the client.initialize() calls made so far,
\* each with its client and whether it is running, has succeeded or has
\* failed; resetting counts the resetWhatsApp calls that await client.destroy().
\* The state fields qr, lastError and injectedPatched, which no branch of
\* startWhatsApp or resetWhatsApp tests, are left out; calls and events
\* count the steps taken.
createSingleton ==
    [client |-> 1, status |-> "idle", initialized |-> FALSE,
     listenersAttached |-> FALSE, listening |-> {}, inits |-> <<>>,
     resetting |-> 0, calls |-> 0, events |-> 0]

\* attachListenersIfNeeded, on the singleton w.
attachListenersIfNeeded(w) ==
    IF w.listenersAttached THEN w
    ELSE [w EXCEPT !.listenersAttached = TRUE, !.listening = @ \cup {w.client}]

\* The synchronous part of startWhatsApp on the singleton w: the listeners,
\* the early return, the browser check, and client.initialize() unless
\* state.initialized is set.
startWhatsAppSync(w, chromeFound) ==
    LET a == attachListenersIfNeeded(w)
    IN IF a.status \in {"ready", "initializing", "qr"} THEN a
       ELSE IF ~chromeFound THEN [a EXCEPT !.status = "error"]
       ELSE IF ~a.initialized
            THEN [a EXCEPT !.status = "initializing",
                           !.initialized = TRUE,
                           !.inits = Append(@, [client |-> a.client, state |-> "running"])]
            ELSE [a EXCEPT !.status = "initializing"]

\* The other variables of the model, which the WhatsApp bridge never touches.
OrderUnchanged == UNCHANGED <<db, orders, wh, page, last, nops, nadmin, fn, pending>>

\* startWhatsApp up to its await of client.initialize(), or to its return.
\* chromeFound is false for the serverless environment without a browser
\* binary.
startWhatsApp(chromeFound) ==
    /\ whatsapp.calls < MaxWhatsAppCalls
    /\ whatsapp' = [startWhatsAppSync(whatsapp, chromeFound) EXCEPT !.calls = @ + 1]
    /\ OrderUnchanged

\* The initialize() call number k resolves: startWhatsApp returns the status.
InitializeResolved(k) ==
    /\ whatsapp.inits[k].state = "running"
    /\ whatsapp' = [whatsapp EXCEPT !.inits[k].state = "succeeded"]
    /\ OrderUnchanged

\* The initialize() call number k rejects: the catch block of startWhatsApp.
InitializeRejected(k) ==
    /\ whatsapp.inits[k].state = "running"
    /\ whatsapp' = [whatsapp EXCEPT !.inits[k].state = "failed",
                                    !.status = "error",
                                    !.initialized = FALSE]
    /\ OrderUnchanged

\* The status a client event sets.
StatusOfEvent(event) ==
    IF event = "qr" THEN "qr"
    ELSE IF event = "ready" THEN "ready"
    ELSE IF event = "auth_failure" THEN "error"
    ELSE "disconnected"

ClientEventTypes == {"qr", "ready", "auth_failure", "disconnected"}

\* The client c has been started and has not failed to start.
ClientStarted(w, c) ==
    \E k \in 1..Len(w.inits) :
        w.inits[k].client = c /\ w.inits[k].state \in {"running", "succeeded"}

\* The client c emits an event and the listener of the bridge runs.  The
\* listeners stay on the client they were attached to and write the shared
\* state, so any client that carries them and has been started is heard,
\* the current one or an earlier one.
ClientEvent(c, event) ==
    /\ whatsapp.events < MaxClientEvents
    /\ c \in whatsapp.listening
    /\ ClientStarted(whatsapp, c)
    /\ whatsapp' = [whatsapp EXCEPT !.status = StatusOfEvent(event), !.events = @ + 1]
    /\ OrderUnchanged

\* resetWhatsApp up to its await of client.destroy(): the listeners are
\* taken off the client of the moment.  Nothing keeps a second call from
\* starting while the first one waits.
ResetBegin ==
    /\ whatsapp.calls < MaxWhatsAppCalls
    /\ whatsapp' = [whatsapp EXCEPT !.listening = @ \ {whatsapp.client},
                                    !.resetting = @ + 1,
                                    !.calls = @ + 1]
    /\ OrderUnchanged

\* resetWhatsApp after destroy() has settled: a new client, the state
\* cleared, the listeners attached to the new client.
ResetFinish ==
    /\ whatsapp.resetting > 0
    /\ whatsapp' = attachListenersIfNeeded(
                       [whatsapp EXCEPT !.client = @ + 1,
                                        !.status = "idle",
                                        !.initialized = FALSE,
                                        !.listenersAttached = FALSE,
                                        !.resetting = @ - 1])
    /\ OrderUnchanged

NextWhatsApp ==
    \/ \E chromeFound \in BOOLEAN : startWhatsApp(chromeFound)
    \/ \E k \in 1..Len(whatsapp.inits) : InitializeResolved(k)
    \/ \E k \in 1..Len(whatsapp.inits) : InitializeRejected(k)
    \/ \E c \in whatsapp.listening, event \in ClientEventTypes : ClientEvent(c, event)
    \/ ResetBegin
    \/ ResetFinish

\* fn holds the last call of a function that touches no stored state: its
\* name, its arguments and what it returned.  No call has been made yet.
NoCall == [name |-> "", args |-> <<>>, out |-> <<>>]

\* ----------------------------------------------------------- specification
InitialOrders == {addOrder(n, 0, 0) : n \in 1..2}

Init ==
    /\ db \in InitialOrders
    /\ orders = db
    /\ wh = [s \in Requests |-> IdleRequest]
    /\ page = NoPage
    /\ last = Step("addOrder", "")
    /\ nops = 0
    /\ nadmin = 0
    /\ fn = NoCall
    /\ whatsapp = createSingleton
    /\ pending = <<>>

\* A request arrives at a webhook route and runs in the free slot.  Every
\* path of the handlers counts as an operation, so none starts once MaxOps
\* operations were made.
StripeWebhook ==
    /\ nops < MaxOps
    /\ \E s \in Requests :
          /\ FreeSlot(s)
          /\ \E e \in StripeEvents, now \in Clock, ok \in BOOLEAN : StripePOST(s, e, now, ok)

MercadoPagoWebhook ==
    /\ nops < MaxOps
    /\ \E s \in Requests :
          /\ FreeSlot(s)
          /\ \E e \in MercadoPagoEvents, now \in Clock, ok \in BOOLEAN :
                MercadoPagoPOST(s, e, now, ok)

WebhookWrite == \E s \in Requests, ok \in BOOLEAN : WebhookUpdateDoc(s, ok)

ConfirmationPage ==
    \/ \E q \in PageQueries, hasLastOrder \in BOOLEAN, readOk \in BOOLEAN :
          PageLoad(q, hasLastOrder, readOk)
    \/ PollRun
    \/ \E r \in PollResponses(page.provider), ok \in BOOLEAN : PollFinish(r, ok)

\* The admin panel records a payment on an installment, or reverses one.
RecordPayment ==
    \E n \in AdminInstallmentNumbers, p \in AdminPayments : recordInstallmentPayment(n, p)

ReversePayment ==
    \E n \in AdminInstallmentNumbers : \E id \in ReversalIds(n) : reversePayment(n, id)

ChangeDueDate ==
    \E n \in AdminInstallmentNumbers, d \in NewDueDates : updateInstallmentDueDate(n, d)

ChangeAmount ==
    \E n \in AdminInstallmentNumbers, a \in NewAmounts : updateInstallmentAmount(n, a)

ChangeDetails == \E d \in OrderDetails : updateOrderDetails(d)

\* The admin panel changes the order's status, moves it to the trash or
\* takes it out again.
ChangeStatus == \E st \in NewStatuses : updateOrderStatus(st)

\* A write that an admin operation left pending reaches the store.
AdminWrite == \E i \in 1..Len(pending), ok \in BOOLEAN : AdminUpdateDoc(i, ok)

AdminDelete == \E i \in 1..Len(pending), ok \in BOOLEAN : AdminDeleteDoc(i, ok)

RestoreBackup == \E data \in BackupOrders : restoreAdminData(data)

RestoreBackupDelete == \E i \in 1..Len(pending), ok \in BOOLEAN : RestoreDelete(i, ok)

RestoreBackupWrite == \E i \in 1..Len(pending), ok \in BOOLEAN : RestoreWrite(i, ok)

\* The admin panel moves a customer to the trash, and the orders with it.
DeleteCustomer == \E cpf \in CustomerCpfs, role \in UserRoles : deleteCustomer(cpf, role)

DeleteCustomerGet == \E i \in 1..Len(pending), ok \in BOOLEAN : DeleteCustomerRead(i, ok)

DeleteCustomerBatch == \E i \in 1..Len(pending), ok \in BOOLEAN : DeleteCustomerCommit(i, ok)

\* At most MaxAdminOps admin calls in a behaviour that mixes them with other
\* operations.  A store operation that a call waited for is not a call of
\* its own.
AdminLimit == nops < MaxOps /\ nadmin < MaxAdminOps

Admin ==
    \/ AdminLimit /\ RecordPayment
    \/ AdminLimit /\ ReversePayment
    \/ AdminLimit /\ ChangeDueDate
    \/ AdminLimit /\ ChangeAmount
    \/ AdminLimit /\ ChangeDetails
    \/ AdminLimit /\ ChangeStatus
    \/ AdminLimit /\ permanentlyDeleteOrder
    \/ AdminLimit /\ emptyTrash
    \/ AdminLimit /\ resetOrders
    \/ AdminWrite
    \/ AdminDelete
    \/ AdminLimit /\ RestoreBackup
    \/ RestoreBackupDelete
    \/ RestoreBackupWrite
    \/ AdminLimit /\ resetAllAdminData
    \/ AdminLimit /\ DeleteCustomer
    \/ DeleteCustomerGet
    \/ DeleteCustomerBatch

Next ==
    \/ StripeWebhook
    \/ MercadoPagoWebhook
    \/ WebhookWrite
    \/ ConfirmationPage
    \/ Admin
    \/ onSnapshot

Spec == Init /\ [][Next]_vars

\* The webhook handlers alone: deliveries from both providers, interleaved.
NextWebhooks == StripeWebhook \/ MercadoPagoWebhook \/ WebhookWrite

SpecWebhooks == Init /\ [][NextWebhooks]_vars

\* The Stripe webhook handler and the admin operations on the listener's
\* copy.  The admin operations read and write the order in the same way
\* whichever provider's webhook wrote it, so one provider stands for both.
NextAdmin == StripeWebhook \/ WebhookWrite \/ Admin \/ onSnapshot

SpecAdmin == Init /\ [][NextAdmin]_vars

\* The webhook handlers and the order-confirmation page.
NextPage == NextWebhooks \/ ConfirmationPage

SpecPage == Init /\ [][NextPage]_vars

\* The WhatsApp bridge alone.
SpecWhatsApp == Init /\ [][NextWhatsApp]_vars

\* ------------------------------------------------------ orders as placed
\* The orders addOrder can save for the items: in zero to two installments,
\* with or without a discount and a down payment.
PlacedOrders ==
    {addOrder(n, discount, downPayment) :
        n \in 0..2, discount \in {0, 2500}, downPayment \in {0, 2500}}

InitOrders ==
    /\ db \in PlacedOrders
    /\ orders = db
    /\ wh = [s \in Requests |-> IdleRequest]
    /\ page = NoPage
    /\ last = Step("addOrder", "")
    /\ nops = 0
    /\ nadmin = 0
    /\ fn = NoCall
    /\ whatsapp = createSingleton
    /\ pending = <<>>

\* At most MaxOrderCalls admin calls in a behaviour of the admin operations
\* alone.
OrdersLimit == nadmin < MaxOrderCalls

\* The admin operations on an order as placed, with the writes they leave
\* pending and the orders listener in between.
NextOrders ==
    \/ OrdersLimit /\ RecordPayment
    \/ OrdersLimit /\ ReversePayment
    \/ OrdersLimit /\ ChangeDueDate
    \/ OrdersLimit /\ ChangeAmount
    \/ OrdersLimit /\ ChangeDetails
    \/ OrdersLimit /\ ChangeStatus
    \/ OrdersLimit /\ permanentlyDeleteOrder
    \/ OrdersLimit /\ emptyTrash
    \/ OrdersLimit /\ resetOrders
    \/ AdminWrite
    \/ AdminDelete
    \/ OrdersLimit /\ RestoreBackup
    \/ RestoreBackupDelete
    \/ RestoreBackupWrite
    \/ OrdersLimit /\ resetAllAdminData
    \/ OrdersLimit /\ DeleteCustomer
    \/ DeleteCustomerGet
    \/ DeleteCustomerBatch
    \/ onSnapshot

SpecOrders == InitOrders /\ [][NextOrders]_vars

\* ------------------------------------------------- payments by the panel
\* The admin panel alone, recording and reversing payments on the order, up
\* to MaxOps calls, with their writes and the orders listener in between.
NextPanel == RecordPayment \/ ReversePayment \/ AdminWrite \/ onSnapshot

SpecPanel == Init /\ [][NextPanel]_vars

\* --------------------------------------------------- verifyStripeSignature
\* createHmac('sha256', secret).update(signedPayload).digest('hex'), taken as
\* an injective function of the secret and the signed string.
Mac(secret, signedPayload) == <<secret, signedPayload>>

\* `${timestamp}.${payload}`
SignedPayload(timestamp, payload) == timestamp \o "." \o payload

\* A part of the header after split(','), trim and filter(Boolean): what it
\* starts with ("t=", "v1=", or something else) and what follows, a timestamp
\* string for "t=" and a signature for the others.
TimestampPart(timestamp) == [k |-> "t=", t |-> timestamp, sig |-> <<>>]
SignaturePart(scheme, sig) == [k |-> scheme, t |-> "", sig |-> sig]

\* safeEqualsHex: equal length and equal bytes.
safeEqualsHex(a, b) == a = b

RECURSIVE FirstTimestamp(_)
FirstTimestamp(parts) ==
    IF parts = <<>> THEN ""
    ELSE IF parts[1].k = "t=" THEN parts[1].t
         ELSE FirstTimestamp(Tail(parts))

\* A verification that looks only at the first v1 signature of the header.
\* The acceptance property C15 is checked to fail against it.
verifyStripeSignatureFirstOnly(payload, parts, webhookSecret) ==
    LET timestamp == FirstTimestamp(parts)
        v1 == {i \in 1..Len(parts) : parts[i].k = "v1="}
        expected == Mac(webhookSecret, SignedPayload(timestamp, payload))
    IN /\ timestamp # ""
       /\ v1 # {}
       /\ \E i \in v1 : (\A j \in v1 : i <= j) /\ safeEqualsHex(parts[i].sig, expected)

verifyStripeSignature(payload, parts, webhookSecret) ==
    LET timestamp == FirstTimestamp(parts)
        signatures == {parts[i].sig : i \in {j \in 1..Len(parts) : parts[j].k = "v1="}}
    IN IF timestamp = "" \/ signatures = {} THEN FALSE
       ELSE LET signedPayload == SignedPayload(timestamp, payload)
                expected == Mac(webhookSecret, signedPayload)
            IN \E sig \in signatures : safeEqualsHex(sig, expected)

\* ------------------------------------------------ functions on their own
\* The totals and counts recalculateInstallments is called with: every total
\* up to MaxTotal cents, 100.00, and a negative one; every count up to
\* MaxCount, zero and a negative one; for either order id.
Totals == (-1..MaxTotal) \cup {10000}
Counts == -1..MaxCount
OrderIds == {OrderId, GhostId}

Called(name, args, out) == [name |-> name, args |-> args, out |-> out]

\* One call per behaviour: a call depends on nothing but its arguments.
Recalculate ==
    /\ fn = NoCall
    /\ \E total \in Totals, installmentsCount \in Counts, orderId \in OrderIds :
          fn' = Called("recalculateInstallments", <<total, installmentsCount, orderId>>,
                       recalculateInstallments(FromCents(total), installmentsCount, orderId, 0))
    /\ UNCHANGED <<db, orders, wh, page, last, nops, nadmin, whatsapp, pending>>

SpecInstallments == Init /\ [][Recalculate]_vars

\* The inputs verifyStripeSignature is called with.  Bodies and timestamps
\* are chosen so that two different (timestamp, body) pairs give the same
\* signed string: "1" with ".a" and "1." with "a".
WebhookSecret == "whsec"
Payloads == {"a", ".a", "b"}
Timestamps == {"", "1", "1."}
Signatures ==
    {Mac(WebhookSecret, SignedPayload(t, p)) : t \in Timestamps, p \in Payloads}
      \cup {Mac("other", SignedPayload("1", "a"))}
HeaderParts ==
    {TimestampPart(t) : t \in Timestamps}
      \cup {SignaturePart("v1=", sig) : sig \in Signatures}
      \cup {SignaturePart("v0=", Mac(WebhookSecret, SignedPayload("1", "a")))}
Headers == UNION {[1..n -> HeaderParts] : n \in 0..MaxParts}

VerifySignature ==
    /\ fn.name = ""
    /\ \E payload \in Payloads, parts \in Headers :
          fn' = Called("verifyStripeSignature", <<payload, parts>>,
                       verifyStripeSignature(payload, parts, WebhookSecret))
    /\ UNCHANGED <<db, orders, wh, page, last, nops, nadmin, whatsapp, pending>>

SpecSignature == Init /\ [][VerifySignature]_vars

\* ----------------------------------------------------- gateway API calls
\* What the gateway's API answers a route's fetch: the HTTP status, and of
\* the JSON body the fields the routes read for their error text ("" for an
\* absent field): MercadoPago's message and error, Stripe's error.message.
GatewayStatuses == {200, 201, 400, 401, 404, 429, 500, 503}
GatewayTexts == {"", "not found"}
GatewayResponses == [status : GatewayStatuses, message : GatewayTexts, error : GatewayTexts]

\* Response.ok
ResponseOk(res) == res.status >= 200 /\ res.status <= 299

\* a || b on strings
OrElse(a, b) == IF a # "" THEN a ELSE b

\* NextResponse.json({ error }, { status }); a success is answered 200 and
\* carries no error text.
ErrorResponse(status, error) == [status |-> status, error |-> error]
SuccessResponse == [status |-> 200, error |-> ""]

\* POST of create-preference from the answer of its fetch on.
createPreference(mpRes) ==
    IF ~ResponseOk(mpRes)
    THEN ErrorResponse(mpRes.status,
                       OrElse(mpRes.message,
                              OrElse(mpRes.error, "Erro ao criar preferência no Mercado Pago.")))
    ELSE SuccessResponse

\* POST of create-checkout-session from the answer of its fetch on.
createCheckoutSession(stripeRes) ==
    IF ~ResponseOk(stripeRes)
    THEN ErrorResponse(stripeRes.status,
                       OrElse(stripeRes.message, "Erro ao criar sessão no Stripe."))
    ELSE SuccessResponse

\* GET of retrieve-payment from the answer of its fetch on.
retrievePayment(mpRes) ==
    IF ~ResponseOk(mpRes)
    THEN ErrorResponse(mpRes.status,
                       OrElse(mpRes.message,
                              OrElse(mpRes.error, "Erro ao consultar pagamento no Mercado Pago.")))
    ELSE SuccessResponse

\* GET of retrieve-session from the answer of its fetch on.
retrieveSession(stripeRes) ==
    IF ~ResponseOk(stripeRes)
    THEN ErrorResponse(stripeRes.status,
                       OrElse(stripeRes.message, "Erro ao consultar sessão no Stripe."))
    ELSE SuccessResponse

\* POST of the MercadoPago webhook from the answer of its payment lookup to
\* the test of mpRes.ok; a payment that was found is reconciled and answered
\* with { received: true }.
mercadoPagoWebhookLookup(mpRes) ==
    IF ~ResponseOk(mpRes)
    THEN ErrorResponse(500, OrElse(mpRes.message,
                                   "Erro ao consultar pagamento no Mercado Pago."))
    ELSE SuccessResponse

\* The routes that call a gateway's API, each from the answer of the call on.
GatewayRoute(name, res) ==
    IF name = "create-preference" THEN createPreference(res)
    ELSE IF name = "create-checkout-session" THEN createCheckoutSession(res)
    ELSE IF name = "retrieve-payment" THEN retrievePayment(res)
    ELSE IF name = "retrieve-session" THEN retrieveSession(res)
    ELSE mercadoPagoWebhookLookup(res)

GatewayRoutes == {"create-preference", "create-checkout-session", "retrieve-payment",
                  "retrieve-session", "mercadopago/webhook"}

\* One request per behaviour: a route's answer depends on nothing but the
\* gateway's.
CallGateway ==
    /\ fn = NoCall
    /\ \E name \in GatewayRoutes, res \in GatewayResponses :
          fn' = Called(name, <<res>>, GatewayRoute(name, res))
    /\ UNCHANGED <<db, orders, wh, page, last, nops, nadmin, whatsapp, pending>>

SpecGateway == Init /\ [][CallGateway]_vars

\* ------------------------------------------------------------------ claims
InstallmentsOf(docu) == {InstallmentDetailsOf(docu)[i] : i \in 1..Len(InstallmentDetailsOf(docu))}

InstallmentNo(docu, n) == {inst \in InstallmentsOf(docu) : inst.installmentNumber = n}

CountId(inst, id) == Cardinality({k \in 1..Len(inst.payments) : inst.payments[k].id = id})

PaymentsOf(inst) == {inst.payments[k] : k \in 1..Len(inst.payments)}

\* The installment numbers a schedule of the model can hold.
ScheduleNumbers == 1..2

\* The external id is already recorded on the installment of that number in
\* the stored order.
Recorded(installmentNumber, externalId) ==
    \E inst \in InstallmentNo(db, installmentNumber) : CountId(inst, externalId) > 0

\* The step is a delivery, to either handler, that took the installment
\* branch (its event is installment-targeted and resolves to Pago).
InstallmentDelivery ==
    /\ last'.op \in {"stripe", "mercadopago"}
    /\ last'.outcome \in {"read", "duplicate", "nomatch"}
    /\ nops' = nops + 1

\* The step is the updateDoc of the webhook request s, and it succeeded.
WroteRequest(s) ==
    /\ wh[s].pc = "update"
    /\ wh'[s].pc = "idle"
    /\ last'.op = "updateDoc"
    /\ last'.outcome = "written"

\* C1: in every reachable state, if installmentDetails is non-empty and every
\* installment is Pago then the order's paymentStatus is Pago.
C1_AllPagoImpliesOrderPago ==
    AllPaid(InstallmentDetailsOf(db)) => db.paymentStatus = "Pago"

\* C2: for both webhook handlers, the delivery of an installment-targeted Pago
\* event whose non-empty external id is already recorded on its installment
\* (a second delivery of the same event) leaves the order document as it was
\* and issues no write: the document is unchanged and no updateDoc is left
\* pending.
C2_RedeliveryChangesNothing ==
    [][(InstallmentDelivery /\ last'.id # "" /\ Recorded(last'.inst, last'.id))
          => (db' = db /\ wh' = wh)]_vars

\* The scenario of C2 has happened: an installment of 50.00 holds payments of
\* 25.00 under p1 and p2, is Pago with 50.00 paid, and the third delivery,
\* of p2 to that installment, was answered as a duplicate with no request
\* left pending.
C2_Witness ==
    /\ last.op \in {"stripe", "mercadopago"} /\ last.outcome = "duplicate"
    /\ last.id = "p2"
    /\ nops = 3
    /\ \A s \in Requests : wh[s].pc = "idle"
    /\ \E inst \in InstallmentNo(db, last.inst) :
          /\ inst.amount = 5000 /\ inst.paidAmount = FromCents(5000) /\ inst.status = "Pago"
          /\ inst.payments = <<[id |-> "p1", amount |-> 2500], [id |-> "p2", amount |-> 2500]>>

\* The payment ids that come from outside the handlers: the providers'
\* session / payment ids and the ids the admin panel passes in.
GivenIds == (ExternalIds \ {""}) \cup {p.id : p \in AdminPayments}

\* C3: in every reachable state no installment lists two payments with the
\* same non-empty id.  The ids in question are the given ones; ids the
\* handlers generate from the clock are left aside, so that a violation does
\* not rest on two deliveries falling in the same millisecond.
C3_PaymentIdsUnique ==
    \A inst \in InstallmentsOf(db) :
        \A id \in GivenIds : CountId(inst, id) <= 1

\* C4: when reconciliations carrying the same non-empty external id race
\* (reads and writes interleaved in any order), every successful write of
\* such a request leaves its installment credited once for that id: exactly
\* one payment record with the id, the one of the request, and a paidAmount
\* that is the sum of the recorded payments, added up in the order recorded.
C4_SameIdCreditedOnce ==
    [][\A s \in Requests :
          (WroteRequest(s) /\ wh[s].id # "") =>
              /\ InstallmentNo(db', wh[s].installmentNumber) # {}
              /\ \A inst \in InstallmentNo(db', wh[s].installmentNumber) :
                    /\ CountId(inst, wh[s].id) = 1
                    /\ [id |-> wh[s].id, amount |-> wh[s].paidAmount] \in PaymentsOf(inst)
                    /\ inst.paidAmount = SumFrom(Zero, inst.payments)]_vars

\* The race of C4 under way: both requests were delivered and read the order
\* before any write, one has written its payment p1 of 25.00, and the other,
\* carrying the same id for the same installment, still has its write
\* pending; the installment lists p1 once.
C4_Witness ==
    /\ nops = 2
    /\ last = Step("updateDoc", "written")
    /\ \E s \in Requests :
          /\ wh[s].pc = "update" /\ wh[s].id = "p1" /\ wh[s].paidAmount = 2500
          /\ \A r \in Requests \ {s} : wh[r].pc = "idle"
          /\ \E inst \in InstallmentNo(db, wh[s].installmentNumber) :
                inst.payments = <<[id |-> "p1", amount |-> 2500]>>

\* C5: payments are append-only: a payment record listed on an installment of
\* the stored order is still listed on that installment after every step that
\* is not a reversePayment.
C5_PaymentsAppendOnly ==
    [][last'.op # "reversePayment" =>
          \A n \in ScheduleNumbers :
              \A inst \in InstallmentNo(db, n) :
                  \A p \in PaymentsOf(inst) :
                      \E after \in InstallmentNo(db', n) : p \in PaymentsOf(after)]_vars

\* The provider whose webhook or confirmation-page poll took the step, ""
\* when the step is neither.
StepProvider ==
    IF last'.op = "stripe" THEN "Stripe"
    ELSE IF last'.op = "mercadopago" THEN "MercadoPago"
    ELSE IF last'.op = "pollFinish"
    THEN (IF page.provider = "stripe" THEN "Stripe" ELSE "MercadoPago")
    ELSE ""

\* C6: once the order's paymentStatus is Pago under a provider, no webhook
\* delivery and no confirmation-page poll of that provider takes paymentStatus
\* from Pago to Pendente.
C6_OrderPagoIsSticky ==
    [][(/\ db.paymentStatus = "Pago"
        /\ db.paymentProvider # ""
        /\ StepProvider = db.paymentProvider)
          => db'.paymentStatus # "Pendente"]_vars

\* The amounts of the installment-targeted events applied in C7, as the
\* handlers take them: Math.max(0, amount).
AppliedAmounts == {Max(0, a) : a \in EventAmounts}

\* C7: in every reachable state of the stored order, applying any
\* installment-targeted webhook event to it (the handler's map over the
\* installments as stored) leaves every installment that is Pago still Pago.
C7_WebhookKeepsPago ==
    \A n \in ScheduleNumbers, id \in ExternalIds, a \in AppliedAmounts :
        LET installmentDetails == InstallmentDetailsOf(db)
            nextInstallments ==
                NextInstallments(installmentDetails, n, id, GeneratedId("stripe", 1), a)
        IN \A i \in 1..Len(installmentDetails) :
              installmentDetails[i].status = "Pago" => nextInstallments[i].status = "Pago"

\* C8: in every reachable state each installment is Pago exactly when its
\* paidAmount has reached its amount within the tolerance, and Pendente
\* otherwise.
C8_StatusMatchesPaidAmount ==
    \A inst \in InstallmentsOf(db) :
        /\ inst.status \in {"Pago", "Pendente"}
        /\ inst.status = "Pago" <=>
              Geq(Add(inst.paidAmount, Tolerance), FromCents(inst.amount))

\* C9: the paidAmount of an installment, identified by its number, does not
\* decrease in any step that is not a reversePayment.
C9_PaidAmountMonotone ==
    [][last'.op # "reversePayment" =>
          \A n \in ScheduleNumbers :
              \A inst \in InstallmentNo(db, n), after \in InstallmentNo(db', n) :
                  Geq(after.paidAmount, inst.paidAmount)]_vars

\* The installments of the stored order that are still Pendente.
PendingInstallments(docu) ==
    {inst \in InstallmentsOf(docu) : inst.status = "Pendente"}

\* C10: for an order with more than one pending installment, paymentStatus
\* becomes Pago only in the write of an installment-targeted reconciliation
\* that leaves every installment Pago; no other webhook branch and no
\* confirmation-page poll sets it to Pago while an installment is Pendente.
C10_PagoOnlyWhenScheduleComplete ==
    [][(/\ Cardinality(PendingInstallments(db)) > 1
        /\ db.paymentStatus # "Pago"
        /\ db'.paymentStatus = "Pago")
          => (last'.op = "updateDoc" /\ AllPaid(InstallmentDetailsOf(db')))]_vars

\* fn holds a schedule computed for a total of at least zero cents and at
\* least one installment.
ScheduleComputed ==
    /\ fn.name = "recalculateInstallments"
    /\ fn.args[1] >= 0
    /\ fn.args[2] >= 1

\* C11: for every total >= 0 in whole cents and every count in 1..36, the
\* amounts recalculateInstallments generates, in cents, sum exactly to the
\* total, there are count of them, and any two differ by at most one cent.
C11_AmountsSumToTotal ==
    ScheduleComputed =>
        /\ Len(fn.out) = fn.args[2]
        /\ SumAmounts(fn.out) = fn.args[1]
        /\ \A i, j \in 1..Len(fn.out) : fn.out[i].amount - fn.out[j].amount <= 1

\* A total of 1.01 was split in 36: installments of 3 and of 2 cents.
C11_Witness ==
    /\ ScheduleComputed
    /\ fn.args = <<101, 36, OrderId>>
    /\ Len(fn.out) = 36
    /\ fn.out[1].amount = 3
    /\ fn.out[36].amount = 2

\* C12: recalculateInstallments gives floor(cents/count)+1 cents to exactly
\* the first (cents mod count) installments in ascending installmentNumber
\* order and floor(cents/count) to the rest, so amounts never increase with
\* the installment number; 100.00 in 3 is 33.34, 33.33, 33.33.
C12_RemainderGoesFirst ==
    ScheduleComputed =>
        LET cents == fn.args[1]
            count == fn.args[2]
        IN /\ \A i \in 1..Len(fn.out) :
                 /\ fn.out[i].installmentNumber = i
                 /\ fn.out[i].amount = (cents \div count)
                                         + (IF i <= cents % count THEN 1 ELSE 0)
           /\ \A i \in 1..(Len(fn.out) - 1) : fn.out[i].amount >= fn.out[i + 1].amount
           /\ (fn.args[1] = 10000 /\ fn.args[2] = 3) =>
                 /\ Len(fn.out) = 3
                 /\ fn.out[1].amount = 3334
                 /\ fn.out[2].amount = 3333
                 /\ fn.out[3].amount = 3333

\* 100.00 was split in 3 and the first installment took the remainder cent.
C12_Witness ==
    /\ ScheduleComputed
    /\ fn.args = <<10000, 3, OrderId>>
    /\ fn.out[1].amount = 3334
    /\ fn.out[3].amount = 3333

\* C13: in every reachable state of an order with installments, the amounts
\* of the installments sum, in cents, to the order's total.
C13_AmountsSumToOrderTotal ==
    Len(InstallmentDetailsOf(db)) > 0 =>
        SumAmounts(db.installmentDetails) = Cents(db.total)

\* A Stripe request whose signature does not verify, carrying an event that
\* would otherwise pay 25.00 on installment 1 of the stored order.
UnverifiedStripeEvent ==
    [verified |-> FALSE, type |-> "checkout.session.completed", orderId |-> OrderId,
     id |-> "p1", payment_status |-> "paid", installmentNumber |-> 1,
     amount_total |-> 2500]

\* C14: a Stripe request whose signature does not verify is answered 400 and
\* has no side effect: the stored order, the admin's copy and the pending
\* writes are as before, so no reconciliation branch was entered.  Hence a
\* request that changes the order, or leaves a write pending, has verified.
C14_UnverifiedHasNoEffect ==
    [][\A s \in Requests, now \in Clock, ok \in BOOLEAN :
          StripePOST(s, UnverifiedStripeEvent, now, ok) =>
              /\ last' = Step("stripe", "400")
              /\ db' = db
              /\ orders' = orders
              /\ wh' = wh]_vars

\* An unverified request has just been answered 400 after an installment
\* payment was reconciled, with the order as that payment left it.
C14_Witness ==
    /\ last = Step("stripe", "400")
    /\ nops = 2
    /\ \A s \in Requests : wh[s].pc = "idle"
    /\ \E inst \in InstallmentsOf(db) : Len(inst.payments) = 1

\* The header Stripe sends for a body: the timestamp and one v1 signature of
\* the timestamp and the body under the webhook secret.
SignedHeader(timestamp, payload) ==
    <<TimestampPart(timestamp),
      SignaturePart("v1=", Mac(WebhookSecret, SignedPayload(timestamp, payload)))>>

\* C15: verifyStripeSignature accepts exactly when the header has a non-empty
\* timestamp t (that of its first t= part) and some v1 candidate equal to
\* MAC(secret, t + "." + body).  So an empty header, one without t= or
\* without v1=, and one whose candidates all differ are rejected; with the
\* header signed for one body, that body is accepted and every other body
\* rejected; a matching candidate anywhere among several suffices.
C15_AcceptsExactlyMatchingSignature ==
    fn.name = "verifyStripeSignature" =>
        LET payload == fn.args[1]
            parts == fn.args[2]
            accepted == fn.out
            ts == {i \in 1..Len(parts) : parts[i].k = "t="}
            first == CHOOSE i \in ts : \A j \in ts : i <= j
            matching == {i \in 1..Len(parts) :
                            /\ parts[i].k = "v1="
                            /\ ts # {}
                            /\ parts[i].sig =
                                  Mac(WebhookSecret, parts[first].t \o "." \o payload)}
        IN /\ accepted <=> (ts # {} /\ parts[first].t # "" /\ matching # {})
           /\ parts = <<>> => ~accepted
           /\ ts = {} => ~accepted
           /\ (\A i \in 1..Len(parts) : parts[i].k # "v1=") => ~accepted
           /\ matching = {} => ~accepted
           /\ \A t \in Timestamps \ {""}, signed \in Payloads :
                 parts = SignedHeader(t, signed) => (accepted <=> payload = signed)

\* A header of three parts was accepted on its second v1 candidate, the
\* first one being a signature under another secret.
C15_Witness ==
    /\ fn.name = "verifyStripeSignature"
    /\ fn.out
    /\ Len(fn.args[2]) = 3
    /\ fn.args[2][1] = TimestampPart("1")
    /\ fn.args[2][2] = SignaturePart("v1=", Mac("other", SignedPayload("1", "a")))
    /\ fn.args[2][3] = SignaturePart("v1=", Mac(WebhookSecret, SignedPayload("1", "a")))
    /\ fn.args[1] = "a"

\* The HTTP status a webhook request is answered with, given how its last
\* step ended: the early returns answer 400 or 500, every other path ends in
\* NextResponse.json({ received: true }).
ResponseStatus(step) ==
    IF step.outcome \in {"400", "500"} THEN step.outcome ELSE "200"

\* The step is a store access of a webhook request that failed: the stamp
\* write, or the write of the installment branch.
StoreAccessFailed ==
    /\ last'.op \in {"stripe", "mercadopago", "updateDoc"}
    /\ last'.outcome = "failed"

\* C16: when a store access of a webhook reconciliation fails, the request is
\* answered with an error, not with success, and the stored order is left as
\* it was.
C16_StoreFailureIsReported ==
    [][StoreAccessFailed => (ResponseStatus(last') # "200" /\ db' = db)]_vars

\* A verified Stripe event and a looked-up MercadoPago payment that name no
\* order, and would otherwise pay 25.00 on installment 1.
UncorrelatedStripeEvent ==
    [verified |-> TRUE, type |-> "checkout.session.completed", orderId |-> "",
     id |-> "p1", payment_status |-> "paid", installmentNumber |-> 1,
     amount_total |-> 2500]

UncorrelatedMercadoPagoEvent ==
    [paymentId |-> "p1", lookupOk |-> TRUE, orderId |-> "", id |-> "p1",
     status |-> "approved", installmentNumber |-> 1, amount |-> 2500]

\* C17: a webhook event that carries no order reference (a verified Stripe
\* event without metadata.orderId and client_reference_id, a MercadoPago
\* payment without external_reference) changes no order document, accesses
\* the store neither to read nor to write, and is answered with
\* { received: true }.
C17_UncorrelatedIsIgnored ==
    [][\A s \in Requests, now \in Clock, ok \in BOOLEAN :
          (\/ StripePOST(s, UncorrelatedStripeEvent, now, ok)
           \/ MercadoPagoPOST(s, UncorrelatedMercadoPagoEvent, now, ok)) =>
              /\ last'.outcome = "ignored"
              /\ ResponseStatus(last') = "200"
              /\ db' = db
              /\ orders' = orders
              /\ wh' = wh]_vars

\* An event without order reference was dropped while the write of an
\* installment payment was pending, and the pending write is still there.
C17_Witness ==
    /\ last.outcome = "ignored"
    /\ last.op \in {"stripe", "mercadopago"}
    /\ nops = 2
    /\ \E s \in Requests : wh[s].pc = "update"

\* The step is the write of a reversePayment reaching the store, called for
\* a payment id that the installment of the stored order holds.
ReversedHeldPayment ==
    /\ last'.op = "reversePayment"
    /\ last'.outcome = "written"
    /\ \E inst \in InstallmentNo(db, last'.inst) : CountId(inst, last'.id) > 0

\* The payments ps without the one at index k.
WithoutPayment(ps, k) == SubSeq(ps, 1, k - 1) \o SubSeq(ps, k + 1, Len(ps))

\* after is before with one payment of the id removed, paidAmount lowered by
\* that payment's amount and status recomputed from the new paidAmount.
ReversedOnce(before, after, id) ==
    \E k \in 1..Len(before.payments) :
        /\ before.payments[k].id = id
        /\ after = [before EXCEPT
                      !.payments = WithoutPayment(before.payments, k),
                      !.paidAmount = Sub(before.paidAmount, FromCents(before.payments[k].amount)),
                      !.status = IF Geq(Sub(before.paidAmount,
                                            FromCents(before.payments[k].amount)),
                                        FromCents(before.amount))
                                 THEN "Pago" ELSE "Pendente"]

\* C18: a reversePayment for a payment id the installment holds removes that
\* payment from the installment, lowers paidAmount by that payment's amount
\* and sets status to Pago only if the new paidAmount >= amount; every other
\* installment and the order's paymentStatus stay as they were.
C18_ReversalRemovesOnePayment ==
    [][ReversedHeldPayment =>
          /\ db'.paymentStatus = db.paymentStatus
          /\ Len(InstallmentDetailsOf(db')) = Len(InstallmentDetailsOf(db))
          /\ \A i \in 1..Len(InstallmentDetailsOf(db)) :
                LET before == db.installmentDetails[i]
                    after == db'.installmentDetails[i]
                IN IF before.installmentNumber = last'.inst
                   THEN ReversedOnce(before, after, last'.id)
                   ELSE after = before]_vars

\* C19: within one page load with a provider and a session / payment id, the
\* poll-and-reconcile routine is started once: after it has completed (done)
\* or failed (error), no step starts it again.
C19_PollStartsOnce ==
    [][(page.extId # "" /\ page.check \in {"done", "error"})
          => page'.check # "checking"]_vars

\* The step is a delivery that took the order-level stamp branch.
StampDelivery ==
    /\ last'.op \in {"stripe", "mercadopago"}
    /\ last'.outcome \in {"stamped", "failed"}
    /\ nops' = nops + 1

\* The fields of the order a stamp may write.
StampFields == {"paymentProvider", "paymentStatus", "paymentSessionId"}

\* A verified Stripe event for the stored order without installment target
\* and without session id.
StampEventWithoutSession ==
    [verified |-> TRUE, type |-> "checkout.session.completed", orderId |-> OrderId,
     id |-> "", payment_status |-> "unpaid", installmentNumber |-> 0,
     amount_total |-> 2500]

\* C20: a webhook event that takes the order-level stamp branch writes only
\* paymentProvider and paymentStatus, and paymentSessionId for Stripe when
\* the session id is non-empty; installmentDetails, with every installment's
\* paidAmount, status and payments, and every other field stay as they were,
\* and no installment write is left pending.
C20_StampLeavesInstallments ==
    [][/\ StampDelivery =>
            /\ \A f \in (DOMAIN db) \ StampFields : db'[f] = db[f]
            /\ db'.installmentDetails = db.installmentDetails
            /\ last'.op = "mercadopago" => db'.paymentSessionId = db.paymentSessionId
            /\ last'.outcome = "stamped" =>
                  db'.paymentProvider = (IF last'.op = "stripe" THEN "Stripe"
                                         ELSE "MercadoPago")
            /\ wh' = wh
       /\ \A s \in Requests, now \in Clock, ok \in BOOLEAN :
             StripePOST(s, StampEventWithoutSession, now, ok) =>
                 db'.paymentSessionId = db.paymentSessionId]_vars

\* A stamp was written on an order one of whose installments holds a payment
\* recorded by an earlier delivery, and the payment is still there.
C20_Witness ==
    /\ last.op \in {"stripe", "mercadopago"}
    /\ last.outcome = "stamped"
    /\ nops = 2
    /\ db.paymentProvider # ""
    /\ \E inst \in InstallmentsOf(db) :
          inst.payments = <<[id |-> "p1", amount |-> 2500]>>
             /\ inst.paidAmount = FromCents(2500)

\* A verified Stripe event for the stored order with session id p1 and an
\* amount of 25.00, of the given type, payment_status and installment target.
VerifiedStripeEvent(type, paymentStatus, installmentNumber) ==
    [verified |-> TRUE, type |-> type, orderId |-> OrderId, id |-> "p1",
     payment_status |-> paymentStatus, installmentNumber |-> installmentNumber,
     amount_total |-> 2500]

\* The three event types that trigger reconciliation.
ReconcilingTypes ==
    {"checkout.session.completed", "checkout.session.async_payment_succeeded",
     "checkout.session.async_payment_failed"}

\* The status C21 states for an event type and a payment_status.
StatedStripeStatus(type, paymentStatus) ==
    IF type = "checkout.session.async_payment_failed" THEN "Falhou"
    ELSE IF paymentStatus = "paid" THEN "Pago"
    ELSE "Pendente"

\* C21: a verified Stripe event of one of the three reconciling types writes
\* to the order, at the order level, the status Falhou for
\* async_payment_failed whatever its payment_status, and otherwise Pago when
\* payment_status is paid and Pendente for every other value; when it carries
\* an installment target it takes the installment branch exactly when that
\* status is Pago.  A verified event of any other type leaves the order and
\* the pending writes as they were.
C21_StripeNormalization ==
    [][\A s \in Requests, now \in Clock, ok \in BOOLEAN :
          /\ \A type \in ReconcilingTypes, ps \in StripePaymentStatuses, n \in 0..1 :
                StripePOST(s, VerifiedStripeEvent(type, ps, n), now, ok) =>
                    IF n > 0 /\ StatedStripeStatus(type, ps) = "Pago"
                    THEN /\ last'.outcome \in {"read", "duplicate", "nomatch"}
                         /\ db' = db
                    ELSE /\ last'.outcome \in {"stamped", "failed"}
                         /\ last'.outcome = "stamped" <=> ok
                         /\ ok => db'.paymentStatus = StatedStripeStatus(type, ps)
                         /\ ~ok => db' = db
          /\ StripePOST(s, VerifiedStripeEvent("payment_intent.created", "paid", 1), now, ok) =>
                /\ last'.outcome = "ignored"
                /\ db' = db
                /\ orders' = orders
                /\ wh' = wh]_vars

\* An async_payment_failed event has stamped Falhou on an order that an
\* earlier event had stamped, and no installment was touched.
C21_Witness ==
    /\ last = Step("stripe", "stamped")
    /\ nops = 2
    /\ db.paymentStatus = "Falhou"
    /\ db.paymentProvider = "Stripe"
    /\ \A inst \in InstallmentsOf(db) : inst.payments = <<>>

\* What retrieve-payment answers for a payment of the displayed order with
\* the given status.
MercadoPagoPayment(status) == [ok |-> TRUE, orderId |-> OrderId, status |-> status]

\* C22: for every MercadoPago payment status, the confirmation-page poll
\* writes the order paymentStatus that the MercadoPago webhook resolves for
\* that status: Pago for approved, Falhou for rejected, cancelled, refunded
\* and charged_back, Pendente for everything else.
C22_PollResolvesAsWebhook ==
    [][\A status \in MercadoPagoStatuses :
          (/\ page.provider = "mercadopago"
           /\ page.extId # ""
           /\ PollFinish(MercadoPagoPayment(status), TRUE)) =>
              db'.paymentStatus = paymentStatusFromMercadoPago(status)]_vars

\* What the provider answers the poll for a paid payment whose order
\* reference is empty, or names another order than the displayed one.
UncorrelatedPollResponses ==
    [ok : {TRUE}, orderId : {"", GhostId}, status : {"paid", "approved"}]

\* C23: the confirmation-page poll issues no order write when the provider's
\* response carries no order reference, and none when the reference differs
\* from the displayed order's id: the stored order stays as it was.
C23_PollNeedsOrderReference ==
    [][\A r \in UncorrelatedPollResponses, updateOk \in BOOLEAN :
          (page.extId # "" /\ PollFinish(r, updateOk)) =>
              (last'.outcome # "written" /\ db' = db)]_vars

\* C24: once a webhook reconciliation has written to the order, on the
\* order-level branch or on the installment branch, the stored order names a
\* payment provider: the stamp sets that of the handler, and the write of an
\* installment payment that carries the provider's session / payment id
\* leaves the order with a provider as well.
C24_WebhookWriteSetsProvider ==
    [][/\ (StampDelivery /\ last'.outcome = "stamped") =>
              db'.paymentProvider = StepProvider
       /\ \A s \in Requests :
              (WroteRequest(s) /\ wh[s].id # "" /\ wh[s].paidAmount > 0) =>
                  db'.paymentProvider \in {"Stripe", "MercadoPago"}]_vars

\* The payments that request r did not see when it read the order: those the
\* stored installment of r's number lists under another provider id with a
\* positive amount, and that the installment of r's patch does not list.
WrittenSinceRead(r) ==
    {p \in UNION {PaymentsOf(inst) : inst \in InstallmentNo(db, wh[r].installmentNumber)} :
        /\ p.id \in ExternalIds \ {"", wh[r].id}
        /\ p.amount > 0
        /\ \A inst \in InstallmentNo(wh[r].patch, wh[r].installmentNumber) :
              p \notin PaymentsOf(inst)}

\* C25: when two reconciliations with different external payment ids for the
\* same installment both read the order before either writes, both payments
\* end up credited: after the second write the installment lists the payment
\* of the first request and that of the second, and its paidAmount is what
\* the first write left plus the amount of the second.
C25_ConcurrentPaymentsBothCredited ==
    [][\A r \in Requests :
          (WroteRequest(r) /\ wh[r].id # "" /\ wh[r].paidAmount > 0) =>
              \A p \in WrittenSinceRead(r) :
                  \A before \in InstallmentNo(db, wh[r].installmentNumber) :
                      \E after \in InstallmentNo(db', wh[r].installmentNumber) :
                          /\ p \in PaymentsOf(after)
                          /\ [id |-> wh[r].id, amount |-> wh[r].paidAmount] \in PaymentsOf(after)
                          /\ after.paidAmount =
                                Add(before.paidAmount, FromCents(wh[r].paidAmount))]_vars

\* fn holds a call of recalculateInstallments.
RecalculateCalled == fn.name = "recalculateInstallments"

\* C26: for count > 0 and total >= 0, recalculateInstallments produces exactly
\* count installments, numbered 1..count in ascending order without repeats,
\* each Pendente with paidAmount 0, an empty payments list and the id
\* 'inst-<orderId>-<installmentNumber>'; for count <= 0 or total < 0 it
\* produces the empty schedule.
C26_ScheduleShape ==
    RecalculateCalled =>
        LET total == fn.args[1]
            count == fn.args[2]
            orderId == fn.args[3]
        IN IF count > 0 /\ total >= 0
           THEN /\ Len(fn.out) = count
                /\ \A i \in 1..Len(fn.out) :
                      /\ fn.out[i].installmentNumber = i
                      /\ fn.out[i].status = "Pendente"
                      /\ fn.out[i].paidAmount = Zero
                      /\ fn.out[i].payments = <<>>
                      /\ fn.out[i].id = "inst-" \o orderId \o "-" \o ToString(i)
                /\ \A i, j \in 1..Len(fn.out) :
                      fn.out[i].installmentNumber = fn.out[j].installmentNumber => i = j
           ELSE fn.out = <<>>

\* A schedule of 12 installments was computed for the order PED-1; its last
\* installment is number 12 with the id inst-PED-1-12.
C26_Witness ==
    /\ RecalculateCalled
    /\ fn.args = <<120, 12, OrderId>>
    /\ Len(fn.out) = 12
    /\ fn.out[12].installmentNumber = 12
    /\ fn.out[12].id = "inst-PED-1-12"
    /\ fn.out[12].payments = <<>>

\* The error text the gateway sent, "" when it sent none.  MercadoPago's is
\* its message, Stripe's its error.message.
GatewayMessage(res) == res.message

\* C27: when the gateway's own API call fails, the route answers with the
\* gateway's HTTP status code and, where the gateway sent one, its message;
\* for the MercadoPago webhook's payment lookup as for create-preference,
\* create-checkout-session, retrieve-payment and retrieve-session.  (None of
\* the four routes accesses the store, and the webhook returns before its
\* first store access: MercadoPagoPOST.)
C27_GatewayFailureIsPassedOn ==
    (fn.name \in GatewayRoutes /\ ~ResponseOk(fn.args[1])) =>
        /\ fn.out.status = fn.args[1].status
        /\ GatewayMessage(fn.args[1]) # "" => fn.out.error = GatewayMessage(fn.args[1])

\* C28: in every reachable state, the paidAmount of every installment of the
\* stored order equals the sum of the amounts of the payments it lists.
C28_PaidAmountIsSumOfPayments ==
    \A inst \in InstallmentsOf(db) : inst.paidAmount = SumFrom(Zero, inst.payments)

\* Installment-targeted paid events for an order that is not in the store.
GhostStripeEvent ==
    [verified |-> TRUE, type |-> "checkout.session.completed", orderId |-> GhostId,
     id |-> "p1", payment_status |-> "paid", installmentNumber |-> 1,
     amount_total |-> 2500]

GhostMercadoPagoEvent ==
    [paymentId |-> "p1", lookupOk |-> TRUE, orderId |-> GhostId, id |-> "p1",
     status |-> "approved", installmentNumber |-> 1, amount |-> 2500]

\* The delivery found nothing to update, was answered { received: true },
\* and left the stored order and the pending writes as they were.
NothingWritten ==
    /\ last'.outcome = "nomatch"
    /\ ResponseStatus(last') = "200"
    /\ db' = db
    /\ orders' = orders
    /\ wh' = wh

\* C29: an installment-targeted Pago webhook event whose installmentNumber
\* matches no installment of the order, or whose order is not in the store,
\* issues no write: installmentDetails, paymentStatus, paymentProvider and
\* every other field of the order stay as they were, no write is left
\* pending, and the handler answers { received: true }.
C29_NoMatchWritesNothing ==
    [][/\ (InstallmentDelivery /\ InstallmentNo(db, last'.inst) = {}) => NothingWritten
       /\ \A s \in Requests, now \in Clock, ok \in BOOLEAN :
             (\/ StripePOST(s, GhostStripeEvent, now, ok)
              \/ MercadoPagoPOST(s, GhostMercadoPagoEvent, now, ok)) => NothingWritten]_vars

\* An event for installment 3 of an order with fewer installments was
\* answered without a write, after an earlier event had paid 25.00 on an
\* installment, and that payment is still there.
C29_Witness ==
    /\ last.op \in {"stripe", "mercadopago"}
    /\ last.outcome = "nomatch"
    /\ last.inst = 3
    /\ nops = 2
    /\ \A s \in Requests : wh[s].pc = "idle"
    /\ db.paymentProvider = ""
    /\ \E inst \in InstallmentsOf(db) :
          inst.payments = <<[id |-> "p1", amount |-> 2500]>>
             /\ inst.paidAmount = FromCents(2500)

\* An initialize() of the client c is running / is running or has succeeded,
\* on the singleton w.
InitializeRunning(w, c) ==
    \E k \in 1..Len(w.inits) : w.inits[k].client = c /\ w.inits[k].state = "running"

InitializeLive(w, c) ==
    \E k \in 1..Len(w.inits) :
        w.inits[k].client = c /\ w.inits[k].state \in {"running", "succeeded"}

\* The step is a startWhatsApp that moved the status to initializing.
MovedToInitializing ==
    /\ whatsapp.status \in {"idle", "disconnected", "error"}
    /\ whatsapp'.status = "initializing"

\* The step invoked client.initialize().
InitializeInvoked == Len(whatsapp'.inits) = Len(whatsapp.inits) + 1

\* C30: every startWhatsApp call that moves the status to initializing (from
\* idle, disconnected or error, the environment having a browser) while no
\* initialize() of the current client is running invokes client.initialize()
\* in that call, so that an initializing status has an initialize() in
\* progress behind it; and initialize() is never invoked on a client of
\* which an earlier initialize() is running or has succeeded.
C30_InitializingMeansInitialize ==
    [][/\ (MovedToInitializing /\ ~InitializeRunning(whatsapp, whatsapp.client))
              => InitializeInvoked
       /\ InitializeInvoked => ~InitializeLive(whatsapp, whatsapp.client)]_vars

====
